---- MODULE Spec2Model ----
(***************************************************************************)
(* A model of the daily-news video pipeline: the dashboard's run control   *)
(* (dashboard.py), the stage orchestrator (main.py), the script writer's   *)
(* retry loop and its JSON extractor (modules/script_writer.py).           *)
(*                                                                         *)
(* The specifications share the variables; each leaves the other parts     *)
(* of the state at their initial value:                                    *)
(*   Spec        the dashboard: requests, scheduler, background workers    *)
(*   SpecPipe    one call of main.run_pipeline, stage by stage             *)
(*   SpecResume  run_pipeline(1,8) against run_pipeline(1,1) and then      *)
(*               (2,8) on the same directory, the collaborators fixed      *)
(*   SpecGen     the model retry loop of generate_script                   *)
(*   SpecJson    one call of _extract_json and the caller's check          *)
(*   SpecRescue  _extract_json with the repair of a cut-off answer         *)
(*   SpecWriter  generate_script's full_script, save_script and the test   *)
(*               stage 3 makes of full_script                              *)
(*   SpecConfig  the entry points of stages 2, 6, 7, 8 under each setting  *)
(*   SpecFeed    one call of fetch_news over two feeds                     *)
(***************************************************************************)
EXTENDS Integers, Sequences, FiniteSets, TLC

VARIABLES
    pipeline_state,   \* dashboard.py: the shared run snapshot
    scheduler_state,  \* dashboard.py: the scheduler's settings
    bg,               \* the background tasks (threads), by task id
    handlers,         \* StepHandlers attached to logger "pipeline"
    results_file,     \* pipeline_results.json of today: who wrote it
    reply,            \* the last HTTP reply to a start request
    run,              \* main.run_pipeline: arguments, position, return value
    locals,           \* main.run_pipeline: the carry-state (local variables)
    results,          \* main.run_pipeline: the results mapping
    disk,             \* today's output directory
    calls,            \* the collaborator calls made so far, in order
    trace,            \* what the run did: stages entered, skips, the failure
    gen,              \* generate_script: the retry loop over the models
    attempts,         \* generate_script: the generate_content calls made
    ex,               \* _extract_json and the caller's check of its result
    sw,               \* generate_script's full_script and save_script's files
    rs,               \* the calls of run_pipeline made on one directory
    cfg,              \* the settings, and one collaborator entry point called under them
    fn                \* fetch_news: the feeds, the loop position, the articles collected

dashVars == <<pipeline_state, scheduler_state, bg, handlers, results_file, reply>>

pipeVars == <<run, locals, results, disk, calls, trace>>

genVars == <<gen, attempts>>

jsonVars == <<ex>>

writerVars == <<sw>>

resumeVars == <<rs>>

configVars == <<cfg>>

feedVars == <<fn>>

vars == <<dashVars, pipeVars, genVars, jsonVars, writerVars, resumeVars, configVars, feedVars>>

\* What the steps of one part of the program leave alone
notDashVars == <<pipeVars, genVars, jsonVars, writerVars, resumeVars, configVars, feedVars>>

notPipeVars == <<dashVars, genVars, jsonVars, writerVars, resumeVars, configVars, feedVars>>

notGenVars == <<dashVars, pipeVars, jsonVars, writerVars, resumeVars, configVars, feedVars>>

notJsonVars == <<dashVars, pipeVars, genVars, writerVars, resumeVars, configVars, feedVars>>

notWriterVars == <<dashVars, pipeVars, genVars, jsonVars, resumeVars, configVars, feedVars>>

notResumeVars == <<dashVars, genVars, jsonVars, writerVars, configVars, feedVars>>

notConfigVars == <<dashVars, pipeVars, genVars, jsonVars, writerVars, resumeVars, feedVars>>

notFeedVars == <<dashVars, pipeVars, genVars, jsonVars, writerVars, resumeVars, configVars>>

(***************************************************************************)
(* Bounds                                                                  *)
(***************************************************************************)
MaxTasks == 2      \* background tasks ever created
MaxLog == 3        \* entries the run log holds before logging blocks
MaxArticles == 2   \* articles a feed retrieval returns at most
MaxStories == 2    \* stories in a script the model returns
MaxFetch == 3      \* the largest max_articles fetch_news is called with
MaxEntries == 2    \* entries a feed holds at most

TaskIds == 1..MaxTasks

(***************************************************************************)
(* main.run_pipeline: the stage range                                      *)
(***************************************************************************)
NumStages == 8

Stages == 1..NumStages

\* main.py: "if start_step <= k <= end_step"
InRange(k, start_step, end_step) == start_step <= k /\ k <= end_step

(***************************************************************************)
(* dashboard.py: state                                                     *)
(***************************************************************************)
Statuses == {"idle", "running", "completed", "failed", "stopping"}

\* The (start_step, end_step) pairs a PipelineRequest is drawn from.
RequestRanges == {<<1, 8>>, <<7, 8>>}

NoRun == 0

InitPipelineState ==
    [status |-> "idle", log |-> <<>>, results |-> NoRun, error |-> FALSE]

NoTask ==
    [kind |-> "none", pc |-> "none", start |-> 0, end |-> 0,
     stage |-> 0, in_stage |-> FALSE, success |-> FALSE,
     stopped |-> FALSE, late |-> FALSE]

InitDash ==
    /\ pipeline_state = InitPipelineState
    /\ scheduler_state = [enabled |-> FALSE]
    /\ bg = [t \in TaskIds |-> NoTask]
    /\ handlers = {}
    /\ results_file = NoRun
    /\ reply = [seq |-> 0, code |-> 0]

FreeTask(t) == bg[t].pc = "none" /\ \A u \in TaskIds : u < t => bg[u].pc # "none"

\* A worker is executing from the moment its task function is entered until it returns.
Executing(t) == bg[t].pc \in {"run", "returned", "load", "upload"}

\* The reply to a start request; seq alternates, so that every answered
\* start request changes reply.
Reply(code) == [seq |-> 1 - reply.seq, code |-> code]

\* A guard that compares with a status the program never sets
StartRejected_WrongLiteral(st) == st = "Running"

\* dashboard.py run_pipeline / run_now: the guard of a start request
StartRejected(st) == st = "running"

NewTask(kind, s, e) ==
    [NoTask EXCEPT !.kind = kind, !.pc = "queued", !.start = s, !.end = e]

\* main.run_pipeline has returned True or False: its locals are gone
Returned(task, success) ==
    [NoTask EXCEPT !.kind = task.kind, !.pc = "returned", !.success = success]

\* The task function has returned: the thread is over
Done(task) == [NoTask EXCEPT !.kind = task.kind, !.pc = "done"]

\* POST /api/pipeline/run
RunPipelineReq(s, e) ==
    /\ IF StartRejected(pipeline_state.status)
         THEN /\ reply' = Reply(400)
              /\ UNCHANGED bg
         ELSE /\ \E t \in TaskIds :
                    /\ FreeTask(t)
                    /\ bg' = [bg EXCEPT ![t] = NewTask("pipeline", s, e)]
              /\ reply' = Reply(200)
    /\ UNCHANGED <<pipeline_state, scheduler_state, handlers, results_file>>

\* POST /api/schedule/run-now: queues _scheduled_pipeline_run
RunNowReq ==
    /\ IF StartRejected(pipeline_state.status)
         THEN /\ reply' = Reply(400)
              /\ UNCHANGED bg
         ELSE /\ \E t \in TaskIds :
                    /\ FreeTask(t)
                    /\ bg' = [bg EXCEPT ![t] = NewTask("scheduled", 1, 8)]
              /\ reply' = Reply(200)
    /\ UNCHANGED <<pipeline_state, scheduler_state, handlers, results_file>>

\* POST /api/pipeline/stop.  stopped remembers, for each worker, that a
\* stop request arrived while it was executing a stage.
StopReq ==
    /\ pipeline_state' = [pipeline_state EXCEPT !.status = "stopping"]
    /\ bg' = [t \in TaskIds |->
                IF bg[t].pc = "run" /\ bg[t].in_stage
                  THEN [bg[t] EXCEPT !.stopped = TRUE]
                  ELSE bg[t]]
    /\ UNCHANGED <<scheduler_state, handlers, results_file, reply>>

\* POST /api/schedule/set
SetSchedule(enabled) ==
    /\ scheduler_state' = [enabled |-> enabled]
    /\ UNCHANGED <<pipeline_state, bg, handlers, results_file, reply>>

\* The cron job of _start_scheduler fires: the scheduler's own thread calls
\* _scheduled_pipeline_run, with no look at pipeline_state.  The scheduler
\* runs one instance of the job at a time.
CronTrigger ==
    /\ scheduler_state.enabled
    /\ \A u \in TaskIds : bg[u].kind = "cron" => bg[u].pc = "done"
    /\ \E t \in TaskIds :
          /\ FreeTask(t)
          /\ bg' = [bg EXCEPT ![t] = NewTask("cron", 1, 8)]
    /\ UNCHANGED <<pipeline_state, scheduler_state, handlers, results_file, reply>>

\* POST /api/outputs/{date}/upload, for a date that has a final_video.mp4
\* (without one the request is answered 404 and changes nothing)
UploadManualReq ==
    /\ \E t \in TaskIds :
          /\ FreeTask(t)
          /\ bg' = [bg EXCEPT ![t] = NewTask("manual", 6, 6)]
    /\ UNCHANGED <<pipeline_state, scheduler_state, handlers, results_file, reply>>

\* _run_pipeline_bg, up to the call of main.run_pipeline: the snapshot is
\* reset and a StepHandler is attached.  _scheduled_pipeline_run passes the
\* range (1, 8).
BgStart(t) ==
    /\ bg[t].pc = "queued"
    /\ bg[t].kind \in {"pipeline", "scheduled", "cron"}
    /\ bg' = [bg EXCEPT ![t].pc = "run"]
    /\ pipeline_state' =
          [status |-> "running", log |-> <<>>, results |-> NoRun, error |-> FALSE]
    /\ handlers' = handlers \cup {t}
    /\ UNCHANGED <<scheduler_state, results_file, reply>>

\* The stage main.run_pipeline executes after stage k, 0 when there is none.
NextStage(k, s, e) ==
    LET later == {j \in Stages : j > k /\ InRange(j, s, e)}
    IN  IF later = {} THEN 0 ELSE CHOOSE j \in later : \A i \in later : j <= i

\* StepHandler.emit: every attached handler appends the message
Emit(ps, t, k) ==
    [ps EXCEPT !.log = ps.log \o [i \in 1..Cardinality(handlers) |-> <<t, k>>]]

\* main.run_pipeline logs "STEP k" and enters stage k
StageBegin(t) ==
    /\ bg[t].pc = "run"
    /\ ~bg[t].in_stage
    /\ LET k == NextStage(bg[t].stage, bg[t].start, bg[t].end)
       IN  /\ k # 0
           /\ Len(pipeline_state.log) + Cardinality(handlers) <= MaxLog
           /\ bg' = [bg EXCEPT ![t].stage = k, ![t].in_stage = TRUE,
                               ![t].late = bg[t].stopped]
           /\ pipeline_state' = Emit(pipeline_state, t, k)
    /\ UNCHANGED <<scheduler_state, handlers, results_file, reply>>

\* Stage k ends: normally, or by an exception, which ends run_pipeline with
\* False.
StageEnd(t, ok) ==
    /\ bg[t].pc = "run"
    /\ bg[t].in_stage
    /\ bg' = [bg EXCEPT ![t] = IF ok THEN [bg[t] EXCEPT !.in_stage = FALSE]
                                 ELSE Returned(bg[t], FALSE)]
    /\ UNCHANGED <<pipeline_state, scheduler_state, handlers, results_file, reply>>

\* main.run_pipeline after the last stage of the range: the results summary
\* is written and True returned.
RunComplete(t) ==
    /\ bg[t].pc = "run"
    /\ ~bg[t].in_stage
    /\ NextStage(bg[t].stage, bg[t].start, bg[t].end) = 0
    /\ results_file' = t
    /\ bg' = [bg EXCEPT ![t] = Returned(bg[t], TRUE)]
    /\ UNCHANGED <<pipeline_state, scheduler_state, handlers, reply>>

\* _run_pipeline_bg: status and completed_at after run_pipeline returned
SetStatus(t) ==
    /\ bg[t].pc = "returned"
    /\ pipeline_state' =
          [pipeline_state EXCEPT
             !.status = IF bg[t].success THEN "completed" ELSE "failed"]
    /\ bg' = [bg EXCEPT ![t].pc = "load"]
    /\ UNCHANGED <<scheduler_state, handlers, results_file, reply>>

\* _run_pipeline_bg: the results file of today is loaded when there is one,
\* and the handler detached; reading the file may raise, which is caught by
\* the handler that sets status and error and detaches nothing.
LoadResults(t, raises) ==
    /\ bg[t].pc = "load"
    /\ raises => results_file # NoRun
    /\ IF raises
         THEN /\ pipeline_state' =
                   [pipeline_state EXCEPT !.status = "failed", !.error = TRUE]
              /\ UNCHANGED handlers
         ELSE /\ pipeline_state' =
                   [pipeline_state EXCEPT
                      !.results = IF results_file # NoRun THEN results_file
                                  ELSE pipeline_state.results]
              /\ handlers' = handlers \ {t}
    /\ bg' = [bg EXCEPT ![t] = Done(bg[t])]
    /\ UNCHANGED <<scheduler_state, results_file, reply>>

\* _log: appends to the snapshot's log directly
Log(ps, t) == [ps EXCEPT !.log = ps.log \o << <<t, 0>> >>]

\* _upload_manual_bg, first statements
ManualStart(t) ==
    /\ bg[t].pc = "queued"
    /\ bg[t].kind = "manual"
    /\ Len(pipeline_state.log) < MaxLog
    /\ pipeline_state' =
          Log([pipeline_state EXCEPT !.status = "running"], t)
    /\ bg' = [bg EXCEPT ![t].pc = "upload"]
    /\ UNCHANGED <<scheduler_state, handlers, results_file, reply>>

\* _upload_manual_bg: upload_video returned or raised
ManualFinish(t, ok) ==
    /\ bg[t].pc = "upload"
    /\ Len(pipeline_state.log) < MaxLog
    /\ pipeline_state' =
          [Log(pipeline_state, t) EXCEPT
             !.status = IF ok THEN "completed" ELSE "failed"]
    /\ bg' = [bg EXCEPT ![t] = Done(bg[t])]
    /\ UNCHANGED <<scheduler_state, handlers, results_file, reply>>

Next ==
    \/ \E r \in RequestRanges : RunPipelineReq(r[1], r[2]) /\ UNCHANGED notDashVars
    \/ RunNowReq /\ UNCHANGED notDashVars
    \/ StopReq /\ UNCHANGED notDashVars
    \/ \E en \in BOOLEAN : SetSchedule(en) /\ UNCHANGED notDashVars
    \/ CronTrigger /\ UNCHANGED notDashVars
    \/ UploadManualReq /\ UNCHANGED notDashVars
    \/ \E t \in TaskIds : BgStart(t) /\ UNCHANGED notDashVars
    \/ \E t \in TaskIds : StageBegin(t) /\ UNCHANGED notDashVars
    \/ \E t \in TaskIds, ok \in BOOLEAN : StageEnd(t, ok) /\ UNCHANGED notDashVars
    \/ \E t \in TaskIds : RunComplete(t) /\ UNCHANGED notDashVars
    \/ \E t \in TaskIds : SetStatus(t) /\ UNCHANGED notDashVars
    \/ \E t \in TaskIds, raises \in BOOLEAN : LoadResults(t, raises) /\ UNCHANGED notDashVars
    \/ \E t \in TaskIds : ManualStart(t) /\ UNCHANGED notDashVars
    \/ \E t \in TaskIds, ok \in BOOLEAN : ManualFinish(t, ok) /\ UNCHANGED notDashVars

(***************************************************************************)
(* main.run_pipeline, one call, stage by stage                             *)
(***************************************************************************)
\* The (start, end) pairs a call of run_pipeline is given
PipeRanges ==
    {<<1, 8>>, <<2, 2>>, <<3, 5>>, <<6, 8>>, <<7, 8>>, <<8, 7>>, <<9, 12>>}

ResultKeys ==
    {"news_count", "story_count", "voiceover_status", "video_status",
     "thumbnail_status", "upload_status", "youtube_url", "short_status",
     "telegram_status"}

\* results = {}: "" stands for a key that is not in the mapping
NoResults == [k \in ResultKeys |-> ""]

\* script_data: {} (kind "empty"), a ScriptDocument made from the article
\* list src, or no file at all (kind "none", on disk only).  full is what
\* full_script holds: "text", "blank" (separators only) or "empty".
EmptyDict == [kind |-> "empty", src |-> -1, full |-> "empty"]

NoFile == [kind |-> "none", src |-> -1, full |-> "empty"]

Doc(n, full) == [kind |-> "doc", src |-> n, full |-> full]

IdleLocals ==
    [articles |-> 0, script_data |-> EmptyDict, voiceover_path |-> FALSE,
     video_path |-> FALSE, thumbnail_path |-> FALSE, youtube_result |-> FALSE]

\* The files of the output directory: -1 is a missing file, a number the
\* article list the file's content derives from.
EmptyDisk ==
    [raw_articles |-> -1, script_data |-> NoFile, voiceover |-> -1,
     final_video |-> -1, thumbnail |-> -1, short_clip |-> -1,
     summary |-> [present |-> FALSE, map |-> NoResults]]

\* What earlier runs of the same date may have left
OldSummary == [present |-> TRUE, map |-> [k \in ResultKeys |-> "old"]]

InitialDisks ==
    [raw_articles : {-1, 0, MaxArticles},
     script_data : {NoFile, Doc(MaxArticles, "text")},
     voiceover : {-1, MaxArticles},
     final_video : {-1, MaxArticles},
     thumbnail : {-1, MaxArticles},
     short_clip : {-1},
     summary : {EmptyDisk.summary, OldSummary}]

NoFailure == [stage |-> 0, cause |-> "none"]

IdlePipe ==
    /\ run = [pc |-> 0, dry_run |-> FALSE, start_step |-> 0, end_step |-> 0,
              ret |-> "none"]
    /\ locals = IdleLocals
    /\ results = NoResults
    /\ calls = <<>>
    /\ trace = [executed |-> <<>>, skipped |-> {}, failure |-> NoFailure,
                notified |-> "none", reads |-> <<>>,
                cross |-> <<>>, ready |-> <<>>, urls |-> <<>>]

\* Positions of run_pipeline after the eight stage guards
AtSummary == 9
AtExcept == 10
AtReturn == 11

\* run_pipeline(dry_run, step_range) is called
PipeCall(dry, s, e) ==
    /\ run.pc = 0
    /\ run' = [pc |-> 1, dry_run |-> dry, start_step |-> s, end_step |-> e,
               ret |-> "none"]
    /\ UNCHANGED <<locals, results, disk, calls, trace>>

\* The guard without its upper bound
StageInRange_NoUpper(k) == run.pc = k /\ run.start_step <= k

StageInRange(k) == run.pc = k /\ InRange(k, run.start_step, run.end_step)

\* "if start_step <= k <= end_step" is false: on to the next guard
SkipStage(k) ==
    /\ run.pc = k
    /\ ~InRange(k, run.start_step, run.end_step)
    /\ run' = [run EXCEPT !.pc = k + 1]
    /\ UNCHANGED <<locals, results, disk, calls, trace>>

\* Every stage from 3 on opens script_data.json, whatever the carry-state
ReadsOf_Always(k) ==
    IF k >= 3 /\ disk.script_data.kind # "none"
      THEN <<"script_data.json">> ELSE <<>>

\* The files stage k reads into the carry-state when it is entered:
\* raw_articles.json under "if not articles:" (when it exists),
\* script_data.json under "if not script_data:" (when it exists; stages 6
\* and 7 outside a dry run only)
ReadsOf(k) ==
    IF k = 2 /\ locals.articles = 0 /\ disk.raw_articles # -1
      THEN <<"raw_articles.json">>
    ELSE IF /\ k \in 3..7
            /\ k \in {6, 7} => ~run.dry_run
            /\ locals.script_data.kind = "empty"
            /\ disk.script_data.kind # "none"
      THEN <<"script_data.json">>
    ELSE <<>>

Entered(k) == [trace EXCEPT !.executed = Append(trace.executed, k),
                            !.reads = trace.reads \o ReadsOf(k)]

\* An exception is logged and the next stage guard reached
Raised_Continues(k, cause) ==
    /\ run' = [run EXCEPT !.pc = k + 1]
    /\ trace' = [Entered(k) EXCEPT !.failure = [stage |-> k, cause |-> cause]]

\* An exception leaves stage k for the except clause
Raised(k, cause) ==
    /\ run' = [run EXCEPT !.pc = AtExcept]
    /\ trace' = [Entered(k) EXCEPT !.failure = [stage |-> k, cause |-> cause]]

\* Stage k ends normally
Passed(k) ==
    /\ run' = [run EXCEPT !.pc = k + 1]
    /\ trace' = Entered(k)

\* The stage uses the carry-state's script_data, whatever it holds
ScriptOrFile_MemoryOnly == locals.script_data

\* "if not script_data:" then the file, when the stage reads it
ScriptOrFile == IF locals.script_data.kind = "empty" THEN disk.script_data
                ELSE locals.script_data

\* STEP 1: fetch_news returns n articles (or the stage raises), and the raw
\* articles are written.
Stage1(n, ok) ==
    /\ StageInRange(1)
    /\ IF ok
         THEN /\ locals' = [locals EXCEPT !.articles = n]
              /\ results' = [results EXCEPT !["news_count"] = "count"]
              /\ disk' = [disk EXCEPT !.raw_articles = n]
              /\ Passed(1)
         ELSE /\ Raised(1, "collaborator")
              /\ UNCHANGED <<locals, results, disk>>
    /\ calls' = Append(calls, "fetch_news")

\* Step 2 uses the list it was handed, whatever it holds
LoadedArticles_NoFile == locals.articles

\* "if not articles:" the list is read from raw_articles.json (-1: no file)
LoadedArticles == IF locals.articles = 0 THEN disk.raw_articles
                  ELSE locals.articles

\* STEP 2: the articles of step 1 or of raw_articles.json; generate_script
\* returns a document (full_script is never empty: it holds the separators)
\* or raises; save_script.
Stage2(ok, full) ==
    /\ StageInRange(2)
    /\ LET articles == LoadedArticles
       IN  IF articles = -1
             THEN /\ Raised(2, "precondition")
                  /\ UNCHANGED <<locals, results, disk, calls>>
             ELSE IF ~ok
               THEN /\ Raised(2, "collaborator")
                    /\ locals' = [locals EXCEPT !.articles = articles]
                    /\ calls' = Append(calls, "generate_script")
                    /\ UNCHANGED <<results, disk>>
               ELSE /\ locals' = [locals EXCEPT !.articles = articles,
                                               !.script_data = Doc(articles, full)]
                    /\ disk' = [disk EXCEPT !.script_data = Doc(articles, full)]
                    /\ results' = [results EXCEPT !["story_count"] = "count"]
                    /\ calls' = calls \o <<"generate_script", "save_script">>
                    /\ Passed(2)

\* STEP 3: the script of step 2 or of script_data.json; generate_voiceover
Stage3(ok) ==
    /\ StageInRange(3)
    /\ LET script == ScriptOrFile
       IN  IF script.kind = "none"
             THEN /\ Raised(3, "precondition")
                  /\ UNCHANGED <<locals, results, disk, calls>>
             ELSE IF script.full = "empty"
               THEN /\ Raised(3, "empty script")
                    /\ locals' = [locals EXCEPT !.script_data = script]
                    /\ UNCHANGED <<results, disk, calls>>
               ELSE /\ calls' = Append(calls, "generate_voiceover")
                    /\ IF ok
                         THEN /\ locals' = [locals EXCEPT !.script_data = script,
                                                         !.voiceover_path = TRUE]
                              /\ disk' = [disk EXCEPT !.voiceover = script.src]
                              /\ results' =
                                   [results EXCEPT !["voiceover_status"] = "done"]
                              /\ Passed(3)
                         ELSE /\ Raised(3, "collaborator")
                              /\ locals' = [locals EXCEPT !.script_data = script]
                              /\ UNCHANGED <<results, disk>>

\* STEP 4: script and voiceover of this run or of the directory; build_video
Stage4(ok) ==
    /\ StageInRange(4)
    /\ LET script == ScriptOrFile
       IN  IF script.kind = "none"
                 \/ (~locals.voiceover_path /\ disk.voiceover = -1)
             THEN /\ Raised(4, "precondition")
                  /\ UNCHANGED <<locals, results, disk, calls>>
             ELSE /\ calls' = Append(calls, "build_video")
                  /\ IF ok
                       THEN /\ locals' = [locals EXCEPT !.script_data = script,
                                                       !.voiceover_path = TRUE,
                                                       !.video_path = TRUE]
                            /\ disk' = [disk EXCEPT !.final_video = script.src]
                            /\ results' = [results EXCEPT !["video_status"] = "size"]
                            /\ Passed(4)
                       ELSE /\ Raised(4, "collaborator")
                            /\ locals' = [locals EXCEPT !.script_data = script,
                                                       !.voiceover_path = TRUE]
                            /\ UNCHANGED <<results, disk>>

\* STEP 5: generate_thumbnail from the script's title
Stage5(ok) ==
    /\ StageInRange(5)
    /\ LET script == ScriptOrFile
       IN  IF script.kind = "none"
             THEN /\ Raised(5, "precondition")
                  /\ UNCHANGED <<locals, results, disk, calls>>
             ELSE /\ calls' = Append(calls, "generate_thumbnail")
                  /\ IF ok
                       THEN /\ locals' = [locals EXCEPT !.script_data = script,
                                                       !.thumbnail_path = TRUE]
                            /\ disk' = [disk EXCEPT !.thumbnail = script.src]
                            /\ results' =
                                 [results EXCEPT !["thumbnail_status"] = "done"]
                            /\ Passed(5)
                       ELSE /\ Raised(5, "collaborator")
                            /\ locals' = [locals EXCEPT !.script_data = script]
                            /\ UNCHANGED <<results, disk>>

\* The calls that publish, cross-post or notify
ExternalCalls ==
    {"upload_video", "create_short_clip", "upload_short", "post_to_telegram",
     "send_notification", "send_daily_summary"}

\* The keys of the results mapping each stage writes (stage 8 writes none)
KeysOfStage(k) ==
    CASE k = 1 -> {"news_count"}
      [] k = 2 -> {"story_count"}
      [] k = 3 -> {"voiceover_status"}
      [] k = 4 -> {"video_status"}
      [] k = 5 -> {"thumbnail_status"}
      [] k = 6 -> {"upload_status", "youtube_url"}
      [] k = 7 -> {"short_status", "telegram_status"}
      [] OTHER -> {}

SkippedValues == {"skipped (dry run)", "skipped"}

\* The stage logs its line and nothing else
Skipped_NotLogged(k) == [trace EXCEPT !.executed = Append(trace.executed, k)]

\* The "SKIPPED (dry run)" line of stage k
Skipped(k) == [Entered(k) EXCEPT !.skipped = trace.skipped \cup {k}]

\* STEP 6 with the upload wrapped in a try of its own, as upload_short is
Stage6_Swallows(ok) ==
    /\ StageInRange(6)
    /\ IF run.dry_run
         THEN /\ results' = [results EXCEPT !["upload_status"] = "skipped (dry run)"]
              /\ run' = [run EXCEPT !.pc = 7]
              /\ trace' = Skipped(6)
              /\ UNCHANGED <<locals, disk, calls>>
         ELSE LET script == ScriptOrFile
              IN  IF script.kind = "none"
                    THEN /\ Raised(6, "precondition")
                         /\ UNCHANGED <<locals, results, disk, calls>>
                    ELSE /\ calls' = Append(calls, "upload_video")
                         /\ UNCHANGED disk
                         /\ locals' =
                              [locals EXCEPT !.script_data = script,
                                             !.video_path = TRUE,
                                             !.thumbnail_path = TRUE,
                                             !.youtube_result =
                                                 ok /\ disk.final_video # -1]
                         /\ results' =
                              IF ok /\ disk.final_video # -1
                                THEN [results EXCEPT
                                        !["upload_status"] = "uploaded",
                                        !["youtube_url"] = "url"]
                                ELSE results
                         /\ Passed(6)

\* STEP 6: skipped by dry_run; else upload_video, which raises when the
\* video file is missing (or for reasons of its own).
Stage6(ok) ==
    /\ StageInRange(6)
    /\ IF run.dry_run
         THEN /\ results' = [results EXCEPT !["upload_status"] = "skipped (dry run)"]
              /\ run' = [run EXCEPT !.pc = 7]
              /\ trace' = Skipped(6)
              /\ UNCHANGED <<locals, disk, calls>>
         ELSE LET script == ScriptOrFile
              IN  IF script.kind = "none"
                    THEN /\ Raised(6, "precondition")
                         /\ UNCHANGED <<locals, results, disk, calls>>
                    ELSE /\ calls' = Append(calls, "upload_video")
                         /\ UNCHANGED disk
                         /\ IF ok /\ disk.final_video # -1
                              THEN /\ locals' =
                                        [locals EXCEPT !.script_data = script,
                                                       !.video_path = TRUE,
                                                       !.thumbnail_path = TRUE,
                                                       !.youtube_result = TRUE]
                                   /\ results' =
                                        [results EXCEPT
                                           !["upload_status"] = "uploaded",
                                           !["youtube_url"] = "url"]
                                   /\ Passed(6)
                              ELSE /\ Raised(6, "collaborator")
                                   /\ locals' =
                                        [locals EXCEPT !.script_data = script,
                                                       !.video_path = TRUE,
                                                       !.thumbnail_path = TRUE]
                                   /\ UNCHANGED results

\* The youtube_url argument of a persisted summary, were one consulted
yt_url_FromSummary ==
    IF locals.youtube_result THEN "url"
    ELSE IF disk.summary.present THEN disk.summary.map["youtube_url"] ELSE ""

\* yt_url = youtube_result.get("url", results.get("youtube_url", "")):
\* youtube_result is {} until upload_video returned in this call
yt_url ==
    IF locals.youtube_result THEN "url" ELSE results["youtube_url"]

\* STEP 7: skipped by dry_run; else create_short_clip (outside any try),
\* upload_short (inside a try) and post_to_telegram (which returns a flag).
\* trace.cross keeps whether upload_short returned and what post_to_telegram
\* returned.
Stage7(clip_ok, short_ok, telegram_ok) ==
    /\ StageInRange(7)
    /\ IF run.dry_run
         THEN /\ results' = [results EXCEPT !["short_status"] = "skipped",
                                            !["telegram_status"] = "skipped"]
              /\ run' = [run EXCEPT !.pc = 8]
              /\ trace' = Skipped(7)
              /\ UNCHANGED <<locals, disk, calls>>
         ELSE LET script == ScriptOrFile
              IN  IF script.kind = "none"
                    THEN /\ Raised(7, "precondition")
                         /\ locals' = [locals EXCEPT !.video_path = TRUE]
                         /\ UNCHANGED <<results, disk, calls>>
                    ELSE IF ~(clip_ok /\ disk.final_video # -1)
                      THEN /\ Raised(7, "collaborator")
                           /\ locals' = [locals EXCEPT !.script_data = script,
                                                       !.video_path = TRUE]
                           /\ calls' = Append(calls, "create_short_clip")
                           /\ UNCHANGED <<results, disk>>
                      ELSE /\ locals' = [locals EXCEPT !.script_data = script,
                                                       !.video_path = TRUE]
                           /\ disk' = [disk EXCEPT !.short_clip = disk.final_video]
                           /\ results' =
                                [results EXCEPT
                                   !["short_status"] =
                                       IF short_ok THEN "uploaded" ELSE "created",
                                   !["telegram_status"] = "posted"]
                           /\ calls' = calls \o <<"create_short_clip",
                                                  "upload_short", "post_to_telegram">>
                           /\ run' = [run EXCEPT !.pc = 8]
                           /\ trace' = [Entered(7) EXCEPT
                                          !.cross = <<short_ok, telegram_ok>>,
                                          !.urls = Append(trace.urls, yt_url)]

\* STEP 8 with a notifier that raises instead of returning False
Stage8_Raises(sent, summarised) ==
    /\ StageInRange(8)
    /\ IF run.dry_run
         THEN /\ trace' = Skipped(8)
              /\ run' = [run EXCEPT !.pc = AtSummary]
              /\ UNCHANGED calls
         ELSE IF sent /\ summarised
           THEN /\ trace' = [Entered(8) EXCEPT
                              !.ready = <<sent, summarised>>,
                              !.urls = Append(trace.urls, yt_url)]
                /\ run' = [run EXCEPT !.pc = AtSummary]
                /\ calls' = calls \o <<"send_notification", "send_daily_summary">>
           ELSE /\ trace' = [Entered(8) EXCEPT
                              !.ready = <<sent, summarised>>,
                              !.urls = Append(trace.urls, yt_url),
                              !.failure = [stage |-> 8, cause |-> "collaborator"]]
                /\ run' = [run EXCEPT !.pc = AtExcept]
                /\ calls' = Append(calls, "send_notification")
    /\ UNCHANGED <<locals, results, disk>>

\* STEP 8: skipped by dry_run; else send_notification(status="ready") and
\* send_daily_summary, which catch their own exceptions and return a flag
\* that run_pipeline drops. trace.ready keeps the two flags, trace.urls the
\* youtube_url argument.
Stage8(sent, summarised) ==
    /\ StageInRange(8)
    /\ IF run.dry_run
         THEN /\ trace' = Skipped(8)
              /\ UNCHANGED calls
         ELSE /\ trace' = [Entered(8) EXCEPT
                            !.ready = <<sent, summarised>>,
                            !.urls = Append(trace.urls, yt_url)]
              /\ calls' = calls \o <<"send_notification", "send_daily_summary">>
    /\ run' = [run EXCEPT !.pc = AtSummary]
    /\ UNCHANGED <<locals, results, disk>>

\* The results are added to what pipeline_results.json already holds
Summary_Merges ==
    /\ run.pc = AtSummary
    /\ disk' = [disk EXCEPT !.summary =
                  [present |-> TRUE,
                   map |-> [k \in ResultKeys |->
                              IF results[k] # "" THEN results[k]
                              ELSE disk.summary.map[k]]]]
    /\ run' = [run EXCEPT !.pc = AtReturn, !.ret = "True"]
    /\ UNCHANGED <<locals, results, calls, trace>>

\* The file is written only when there is a result to write
Summary_SkipsEmpty ==
    /\ run.pc = AtSummary
    /\ disk' = IF results = NoResults THEN disk
               ELSE [disk EXCEPT !.summary = [present |-> TRUE, map |-> results]]
    /\ run' = [run EXCEPT !.pc = AtReturn, !.ret = "True"]
    /\ UNCHANGED <<locals, results, calls, trace>>

\* SUMMARY: pipeline_results.json is written, True returned
Summary ==
    /\ run.pc = AtSummary
    /\ disk' = [disk EXCEPT !.summary = [present |-> TRUE, map |-> results]]
    /\ run' = [run EXCEPT !.pc = AtReturn, !.ret = "True"]
    /\ UNCHANGED <<locals, results, calls, trace>>

\* A failure of the notification leaves run_pipeline as an exception
ExceptClause_Reraises(sent) ==
    /\ run.pc = AtExcept
    /\ calls' = Append(calls, "send_notification")
    /\ run' = [run EXCEPT !.pc = AtReturn,
                          !.ret = IF sent THEN "False" ELSE "none"]
    /\ trace' = [trace EXCEPT !.notified = IF sent THEN "sent" ELSE "failed"]
    /\ UNCHANGED <<locals, results, disk>>

\* except Exception: the failure notification is tried (it is sent, or it
\* fails and "except Exception: pass" follows), False returned
ExceptClause(sent) ==
    /\ run.pc = AtExcept
    /\ calls' = Append(calls, "send_notification")
    /\ run' = [run EXCEPT !.pc = AtReturn, !.ret = "False"]
    /\ trace' = [trace EXCEPT !.notified = IF sent THEN "sent" ELSE "failed"]
    /\ UNCHANGED <<locals, results, disk>>

PipeNext ==
    \/ \E dry \in BOOLEAN, r \in PipeRanges : PipeCall(dry, r[1], r[2]) /\ UNCHANGED notPipeVars
    \/ \E k \in Stages : SkipStage(k) /\ UNCHANGED notPipeVars
    \/ \E n \in 0..MaxArticles, ok \in BOOLEAN : Stage1(n, ok) /\ UNCHANGED notPipeVars
    \/ \E ok \in BOOLEAN, full \in {"text", "blank"} : Stage2(ok, full) /\ UNCHANGED notPipeVars
    \/ \E ok \in BOOLEAN : Stage3(ok) /\ UNCHANGED notPipeVars
    \/ \E ok \in BOOLEAN : Stage4(ok) /\ UNCHANGED notPipeVars
    \/ \E ok \in BOOLEAN : Stage5(ok) /\ UNCHANGED notPipeVars
    \/ \E ok \in BOOLEAN : Stage6(ok) /\ UNCHANGED notPipeVars
    \/ \E c \in BOOLEAN, u \in BOOLEAN, g \in BOOLEAN : Stage7(c, u, g) /\ UNCHANGED notPipeVars
    \/ \E n \in BOOLEAN, d \in BOOLEAN : Stage8(n, d) /\ UNCHANGED notPipeVars
    \/ Summary /\ UNCHANGED notPipeVars
    \/ \E sent \in BOOLEAN : ExceptClause(sent) /\ UNCHANGED notPipeVars

(***************************************************************************)
(* main.run_pipeline called again on the directory an earlier call left    *)
(***************************************************************************)
\* What the collaborators do, the same in every call: the list fetch_news
\* returns, and whether each later collaborator returns or raises.
Stubs ==
    [articles : 0..MaxArticles, script_ok : BOOLEAN, full : {"text", "blank"},
     voice_ok : BOOLEAN, video_ok : BOOLEAN, thumbnail_ok : BOOLEAN,
     publish_ok : BOOLEAN]

\* The directories the calls start from
ResumeDisks ==
    {d \in InitialDisks : d.thumbnail = d.final_video
                            /\ d.summary = EmptyDisk.summary}

IdleResume ==
    rs = [phase |-> "idle", dry_run |-> FALSE,
          stub |-> CHOOSE st \in Stubs : TRUE,
          before |-> EmptyDisk, single |-> EmptyDisk]

\* A call of run_pipeline starts with empty results and carry-state; the
\* directory is the one of the date.
Invoke(dry, s, e) ==
    /\ run' = [pc |-> 1, dry_run |-> dry, start_step |-> s, end_step |-> e,
               ret |-> "none"]
    /\ locals' = IdleLocals
    /\ results' = NoResults
    /\ calls' = <<>>
    /\ trace' = [executed |-> <<>>, skipped |-> {}, failure |-> NoFailure,
                 notified |-> "none", reads |-> <<>>,
                cross |-> <<>>, ready |-> <<>>, urls |-> <<>>]

\* python main.py: the whole range in one call
SingleCall ==
    /\ rs.phase = "start"
    /\ run.pc = 0
    /\ Invoke(rs.dry_run, 1, NumStages)
    /\ rs' = [rs EXCEPT !.phase = "single"]
    /\ UNCHANGED disk

\* The directory as the single call left it is set aside; on the directory
\* as it was before: python main.py --step 1
FirstCall ==
    /\ rs.phase = "single"
    /\ run.pc = AtReturn
    /\ Invoke(rs.dry_run, 1, 1)
    /\ disk' = rs.before
    /\ rs' = [rs EXCEPT !.phase = "first", !.single = disk]

\* python main.py --step 2-8, on what --step 1 left
ResumeCall ==
    /\ rs.phase = "first"
    /\ run.pc = AtReturn
    /\ Invoke(rs.dry_run, 2, NumStages)
    /\ rs' = [rs EXCEPT !.phase = "resumed"]
    /\ UNCHANGED disk

ResumeNext ==
    \/ SingleCall /\ UNCHANGED notResumeVars
    \/ FirstCall /\ UNCHANGED notResumeVars
    \/ ResumeCall /\ UNCHANGED notResumeVars
    \/ \E k \in Stages : SkipStage(k) /\ UNCHANGED notPipeVars
    \/ Stage1(rs.stub.articles, TRUE) /\ UNCHANGED notPipeVars
    \/ Stage2(rs.stub.script_ok, rs.stub.full) /\ UNCHANGED notPipeVars
    \/ Stage3(rs.stub.voice_ok) /\ UNCHANGED notPipeVars
    \/ Stage4(rs.stub.video_ok) /\ UNCHANGED notPipeVars
    \/ Stage5(rs.stub.thumbnail_ok) /\ UNCHANGED notPipeVars
    \/ Stage6(rs.stub.publish_ok) /\ UNCHANGED notPipeVars
    \/ Stage7(rs.stub.publish_ok, rs.stub.publish_ok, rs.stub.publish_ok) /\ UNCHANGED notPipeVars
    \/ Stage8(rs.stub.publish_ok, rs.stub.publish_ok) /\ UNCHANGED notPipeVars
    \/ Summary /\ UNCHANGED notPipeVars
    \/ ExceptClause(rs.stub.publish_ok) /\ UNCHANGED notPipeVars

(***************************************************************************)
(* script_writer.generate_script: the retry loop over the models           *)
(***************************************************************************)
\* The values GEMINI_MODEL is given: the default, a fallback, another model
ConfiguredModels == {"gemini-2.5-flash", "gemini-2.0-flash", "gemini-1.5-pro"}

Fallbacks == <<"gemini-2.5-flash", "gemini-2.0-flash", "gemini-2.0-flash-lite">>

\* [m for m in models_to_try if not (m in seen or seen.add(m))]
RECURSIVE Dedupe(_, _)
Dedupe(models, seen) ==
    IF models = <<>> THEN <<>>
    ELSE IF Head(models) \in seen THEN Dedupe(Tail(models), seen)
    ELSE <<Head(models)>> \o Dedupe(Tail(models), seen \cup {Head(models)})

\* The list is tried as it was written, duplicates and all
ModelsToTry_Duplicates(model_name) == <<model_name>> \o Fallbacks

ModelsToTry(model_name) == Dedupe(<<model_name>> \o Fallbacks, {})

\* for attempt in range(3)
Attempts_Fewer == 3 - 1

Attempts == 3

\* wait = [5, 15, 30][attempt]
Waits == <<5, 15, 30>>

\* str(e) of the exceptions generate_content raises
ErrorMessages ==
    {<<"4", "2", "9", " ", "l", "i", "m", "i", "t">>,
     <<"Q", "u", "o", "t", "a", " ", "h", "i", "t">>,
     <<"n", "o", " ", "q", "u", "o", "t", "a">>,
     <<"5", "0", "0", " ", "d", "o", "w", "n">>,
     <<>>}

\* sub in text
Contains(text, sub) ==
    \E i \in 0..(Len(text) - Len(sub)) : SubSeq(text, i + 1, i + Len(sub)) = sub

\* str.lower, on the letters the messages hold
LowerChar(c) ==
    CASE c = "Q" -> "q" [] c = "U" -> "u" [] c = "O" -> "o" [] c = "T" -> "t"
      [] c = "A" -> "a" [] OTHER -> c

Lower(text) == [i \in DOMAIN text |-> LowerChar(text[i])]

\* The test compares the message as it is
IsRateLimit_CaseSensitive(err_str) ==
    \/ Contains(err_str, <<"4", "2", "9">>)
    \/ Contains(err_str, <<"q", "u", "o", "t", "a">>)

\* "429" in err_str or "quota" in err_str.lower()
IsRateLimit(err_str) ==
    \/ Contains(err_str, <<"4", "2", "9">>)
    \/ Contains(Lower(err_str), <<"q", "u", "o", "t", "a">>)

IdleGen ==
    /\ gen = [pc |-> "idle", models |-> <<>>, model |-> 0, attempt |-> 0,
              response |-> "none", last_error |-> "none", err_str |-> <<>>,
              slept |-> 0]
    /\ attempts = <<>>

\* generate_script is called and reaches the loop
GenStart(model_name) ==
    /\ gen.pc = "idle"
    /\ gen' = [gen EXCEPT !.pc = "try", !.models = ModelsToTry(model_name),
                          !.model = 1, !.attempt = 0]
    /\ UNCHANGED attempts

TryModel == gen.models[gen.model]

\* After the inner loop without a response: the next model, or the end of
\* the outer loop
NextModel(g) ==
    IF g.model < Len(g.models)
    THEN [g EXCEPT !.model = g.model + 1, !.attempt = 0]
    ELSE [g EXCEPT !.pc = "after"]

\* generate_content returns: break, and "if response: break"
GenSuccess ==
    /\ gen.pc = "try"
    /\ attempts' = Append(attempts, <<TryModel, "ok">>)
    /\ gen' = [gen EXCEPT !.response = TryModel, !.pc = "after"]

\* generate_content raises with "429" or "quota" in the message: sleep, and
\* the next attempt on the same model while range(3) lasts
GenRateLimited(err_str) ==
    /\ gen.pc = "try"
    /\ IsRateLimit(err_str)
    /\ attempts' = Append(attempts, <<TryModel, "rate">>)
    /\ LET g == [gen EXCEPT !.last_error = "rate", !.err_str = err_str,
                            !.slept = gen.slept + Waits[gen.attempt + 1]]
       IN  gen' = IF gen.attempt + 1 < Attempts
                  THEN [g EXCEPT !.attempt = gen.attempt + 1]
                  ELSE NextModel(g)

\* generate_content raises anything else: break, try the next model
GenOtherError(err_str) ==
    /\ gen.pc = "try"
    /\ ~IsRateLimit(err_str)
    /\ attempts' = Append(attempts, <<TryModel, "other">>)
    /\ gen' = NextModel([gen EXCEPT !.last_error = "other", !.err_str = err_str])

\* if not response: raise last_error; else the response is used
GenEnd ==
    /\ gen.pc = "after"
    /\ gen' = [gen EXCEPT !.pc = IF gen.response = "none" THEN "raised"
                                 ELSE "responded"]
    /\ UNCHANGED attempts

GenNext ==
    \/ \E m \in ConfiguredModels : GenStart(m) /\ UNCHANGED notGenVars
    \/ GenSuccess /\ UNCHANGED notGenVars
    \/ \E e \in ErrorMessages : GenRateLimited(e) /\ UNCHANGED notGenVars
    \/ \E e \in ErrorMessages : GenOtherError(e) /\ UNCHANGED notGenVars
    \/ GenEnd /\ UNCHANGED notGenVars

(***************************************************************************)
(* script_writer._extract_json: texts, json.loads and the repair passes    *)
(*                                                                         *)
(* A text is a sequence of characters, each a one-character string; the    *)
(* characters that TLA+ cannot write stand as tokens ("<NUL>", "<BS>",     *)
(* "<VT>", "<ZWSP>").  A JSON value is a tuple whose first element is its  *)
(* kind: <<"obj", pairs>>, <<"arr", items>>, <<"str", chars>>,             *)
(* <<"num", n>>, <<"float", lexeme>>, <<"lit", name>>.                     *)
(***************************************************************************)
\* json.decoder.WHITESPACE
JsonWhitespace == {" ", "\t", "\n", "\r"}

\* \s of the re module
ReWhitespace == {" ", "\t", "\n", "\r", "\f", "<VT>"}

\* Characters below U+0020, which a strict JSON string may not hold
ControlChars == {"<NUL>", "<BS>", "\t", "\n", "<VT>", "\f", "\r"}

\* unicodedata.category(ch)[0] == "C"
CategoryC == ControlChars \cup {"<ZWSP>"}

Digits == <<"0", "1", "2", "3", "4", "5", "6", "7", "8", "9">>

DigitChars == {Digits[i] : i \in DOMAIN Digits}

HexChars == DigitChars \cup {"a", "b", "c", "d", "e", "f", "A", "B", "C", "D", "E", "F"}

DigitValue(c) == (CHOOSE i \in DOMAIN Digits : Digits[i] = c) - 1

\* text.find(c) and text.rfind(c): 0-based, -1 when c does not occur
Find(text, c) ==
    IF \E i \in DOMAIN text : text[i] = c
    THEN (CHOOSE i \in DOMAIN text :
              text[i] = c /\ \A j \in DOMAIN text : text[j] = c => i <= j) - 1
    ELSE -1

RFind(text, c) ==
    IF \E i \in DOMAIN text : text[i] = c
    THEN (CHOOSE i \in DOMAIN text :
              text[i] = c /\ \A j \in DOMAIN text : text[j] = c => j <= i) - 1
    ELSE -1

\* text[start:end+1]
Span(text, start, end) == SubSeq(text, start + 1, end + 1)

\* The result of a scan: the value and the position after it, or a failure
ParseFailure == [ok |-> FALSE, val |-> <<"none">>, pos |-> 0]

Parsed(val, pos) == [ok |-> TRUE, val |-> val, pos |-> pos]

RECURSIVE SkipWs(_, _)
SkipWs(s, i) ==
    IF i <= Len(s) /\ s[i] \in JsonWhitespace THEN SkipWs(s, i + 1) ELSE i

\* The escaped character taken as it stands
Unescape_Verbatim(e) == e

\* json.decoder.BACKSLASH
Unescape(e) ==
    CASE e = "b" -> "<BS>"
      [] e = "f" -> "\f"
      [] e = "n" -> "\n"
      [] e = "r" -> "\r"
      [] e = "t" -> "\t"
      [] OTHER -> e

LowerHex(c) ==
    CASE c = "A" -> "a" [] c = "B" -> "b" [] c = "C" -> "c"
      [] c = "D" -> "d" [] c = "E" -> "e" [] c = "F" -> "f"
      [] OTHER -> c

\* The character \uXXXX stands for; one outside the alphabet of the texts
\* is kept as the token "\uXXXX"
CodePoint(hex) ==
    LET h == [k \in 1..4 |-> LowerHex(hex[k])]
    IN  CASE h = <<"0", "0", "0", "0">> -> "<NUL>"
          [] h = <<"0", "0", "0", "8">> -> "<BS>"
          [] h = <<"0", "0", "0", "9">> -> "\t"
          [] h = <<"0", "0", "0", "a">> -> "\n"
          [] h = <<"0", "0", "0", "b">> -> "<VT>"
          [] h = <<"0", "0", "0", "c">> -> "\f"
          [] h = <<"0", "0", "0", "d">> -> "\r"
          [] h = <<"2", "0", "0", "b">> -> "<ZWSP>"
          [] OTHER -> "\\u" \o h[1] \o h[2] \o h[3] \o h[4]

EscapeChars == {"\"", "\\", "/", "b", "f", "n", "r", "t"}

\* json.decoder.scanstring (strict), from the character after the quote
RECURSIVE ScanString(_, _, _)
ScanString(s, i, acc) ==
    IF i > Len(s) THEN ParseFailure
    ELSE IF s[i] = "\"" THEN Parsed(<<"str", acc>>, i + 1)
    ELSE IF s[i] = "\\"
      THEN IF i + 1 > Len(s) THEN ParseFailure
           ELSE IF s[i + 1] = "u"
             THEN IF i + 5 <= Len(s) /\ \A k \in 2..5 : s[i + k] \in HexChars
                  THEN ScanString(s, i + 6,
                           Append(acc, CodePoint(SubSeq(s, i + 2, i + 5))))
                  ELSE ParseFailure
           ELSE IF s[i + 1] \in EscapeChars
             THEN ScanString(s, i + 2, Append(acc, Unescape(s[i + 1])))
           ELSE ParseFailure
    ELSE IF s[i] \in ControlChars THEN ParseFailure
    ELSE ScanString(s, i + 1, Append(acc, s[i]))

\* The word w stands in s at position i
HasWord(s, i, w) ==
    /\ i + Len(w) - 1 <= Len(s)
    /\ \A k \in DOMAIN w : s[i + k - 1] = w[k]

RECURSIVE DigitsEnd(_, _)
DigitsEnd(s, i) ==
    IF i <= Len(s) /\ s[i] \in DigitChars THEN DigitsEnd(s, i + 1) ELSE i

RECURSIVE DigitsValue(_, _, _, _)
DigitsValue(s, i, j, acc) ==
    IF i >= j THEN acc ELSE DigitsValue(s, i + 1, j, 10 * acc + DigitValue(s[i]))

\* json.scanner.NUMBER_RE: (-?(?:0|[1-9]\d*))(\.\d+)?([eE][-+]?\d+)?
ScanNumber(s, i) ==
    LET neg == i <= Len(s) /\ s[i] = "-"
        d == IF neg THEN i + 1 ELSE i
        intEnd == IF d <= Len(s) /\ s[d] = "0" THEN d + 1 ELSE DigitsEnd(s, d)
        fracEnd == IF intEnd + 1 <= Len(s) /\ s[intEnd] = "."
                        /\ s[intEnd + 1] \in DigitChars
                   THEN DigitsEnd(s, intEnd + 1) ELSE intEnd
        expDigits == IF fracEnd + 1 <= Len(s) /\ s[fracEnd + 1] \in {"-", "+"}
                     THEN fracEnd + 2 ELSE fracEnd + 1
        expEnd == IF fracEnd <= Len(s) /\ s[fracEnd] \in {"e", "E"}
                       /\ expDigits <= Len(s) /\ s[expDigits] \in DigitChars
                  THEN DigitsEnd(s, expDigits) ELSE fracEnd
        n == DigitsValue(s, d, intEnd, 0)
    IN  IF intEnd = d THEN ParseFailure
        ELSE IF expEnd = intEnd
          THEN Parsed(<<"num", IF neg THEN 0 - n ELSE n>>, intEnd)
        ELSE Parsed(<<"float", SubSeq(s, i, expEnd - 1)>>, expEnd)

\* dict(pairs): a later value of a key replaces the earlier one in place
DictSet(pairs, key, val) ==
    IF \E i \in DOMAIN pairs : pairs[i][1] = key
    THEN [i \in DOMAIN pairs |->
             IF pairs[i][1] = key THEN <<key, val>> ELSE pairs[i]]
    ELSE Append(pairs, <<key, val>>)

RECURSIVE ScanOnce(_, _), ObjectMembers(_, _, _), ArrayItems(_, _, _)

\* json.decoder.JSONObject, from the character after "{"
ScanObject(s, i) ==
    LET j == SkipWs(s, i)
    IN  IF j > Len(s) THEN ParseFailure
        ELSE IF s[j] = "}" THEN Parsed(<<"obj", <<>>>>, j + 1)
        ELSE IF s[j] # "\"" THEN ParseFailure
        ELSE ObjectMembers(s, j + 1, <<>>)

ObjectMembers(s, i, pairs) ==
    LET key == ScanString(s, i, <<>>)
        colon == SkipWs(s, key.pos)
        value == ScanOnce(s, SkipWs(s, colon + 1))
        next == SkipWs(s, value.pos)
        quote == SkipWs(s, next + 1)
    IN  IF ~key.ok THEN ParseFailure
        ELSE IF colon > Len(s) \/ s[colon] # ":" THEN ParseFailure
        ELSE IF ~value.ok THEN ParseFailure
        ELSE IF next > Len(s) THEN ParseFailure
        ELSE IF s[next] = "}"
          THEN Parsed(<<"obj", DictSet(pairs, key.val[2], value.val)>>, next + 1)
        ELSE IF s[next] # "," THEN ParseFailure
        ELSE IF quote > Len(s) \/ s[quote] # "\"" THEN ParseFailure
        ELSE ObjectMembers(s, quote + 1, DictSet(pairs, key.val[2], value.val))

\* json.decoder.JSONArray, from the character after "["
ScanArray(s, i) ==
    LET j == SkipWs(s, i)
    IN  IF j <= Len(s) /\ s[j] = "]" THEN Parsed(<<"arr", <<>>>>, j + 1)
        ELSE ArrayItems(s, j, <<>>)

ArrayItems(s, i, items) ==
    LET value == ScanOnce(s, i)
        next == SkipWs(s, value.pos)
    IN  IF ~value.ok THEN ParseFailure
        ELSE IF next > Len(s) THEN ParseFailure
        ELSE IF s[next] = "]"
          THEN Parsed(<<"arr", Append(items, value.val)>>, next + 1)
        ELSE IF s[next] # "," THEN ParseFailure
        ELSE ArrayItems(s, SkipWs(s, next + 1), Append(items, value.val))

\* json.scanner.py_make_scanner._scan_once
ScanOnce(s, i) ==
    IF i > Len(s) THEN ParseFailure
    ELSE IF s[i] = "\"" THEN ScanString(s, i + 1, <<>>)
    ELSE IF s[i] = "{" THEN ScanObject(s, i + 1)
    ELSE IF s[i] = "[" THEN ScanArray(s, i + 1)
    ELSE IF HasWord(s, i, <<"n", "u", "l", "l">>) THEN Parsed(<<"lit", "null">>, i + 4)
    ELSE IF HasWord(s, i, <<"t", "r", "u", "e">>) THEN Parsed(<<"lit", "true">>, i + 4)
    ELSE IF HasWord(s, i, <<"f", "a", "l", "s", "e">>)
      THEN Parsed(<<"lit", "false">>, i + 5)
    ELSE IF ScanNumber(s, i).ok THEN ScanNumber(s, i)
    ELSE IF HasWord(s, i, <<"N", "a", "N">>) THEN Parsed(<<"lit", "NaN">>, i + 3)
    ELSE IF HasWord(s, i, <<"I", "n", "f", "i", "n", "i", "t", "y">>)
      THEN Parsed(<<"lit", "Infinity">>, i + 8)
    ELSE IF HasWord(s, i, <<"-", "I", "n", "f", "i", "n", "i", "t", "y">>)
      THEN Parsed(<<"lit", "-Infinity">>, i + 9)
    ELSE ParseFailure

\* json.loads: one value, whitespace around it, nothing else
Loads(s) ==
    LET value == ScanOnce(s, SkipWs(s, 1))
    IN  IF value.ok /\ SkipWs(s, value.pos) = Len(s) + 1 THEN value
        ELSE ParseFailure

RECURSIVE SkipReWs(_, _)
SkipReWs(s, i) ==
    IF i <= Len(s) /\ s[i] \in ReWhitespace THEN SkipReWs(s, i + 1) ELSE i

\* The first position from i on where w stands in s, 0 if there is none
RECURSIVE FindWord(_, _, _)
FindWord(s, i, w) ==
    IF i + Len(w) - 1 > Len(s) THEN 0
    ELSE IF HasWord(s, i, w) THEN i
    ELSE FindWord(s, i + 1, w)

\* re.sub(r',\s*([}\]])', r'\1', s)
RECURSIVE RemoveTrailingCommas(_, _)
RemoveTrailingCommas(s, i) ==
    IF i > Len(s) THEN <<>>
    ELSE LET j == SkipReWs(s, i + 1)
         IN  IF s[i] = "," /\ j <= Len(s) /\ s[j] \in {"}", "]"}
             THEN <<s[j]>> \o RemoveTrailingCommas(s, j + 1)
             ELSE <<s[i]>> \o RemoveTrailingCommas(s, i + 1)

\* re.sub(r'//.*?\n', '\n', s): "." does not match a newline
RECURSIVE RemoveLineComments(_, _)
RemoveLineComments(s, i) ==
    IF i > Len(s) THEN <<>>
    ELSE LET newline == FindWord(s, i + 2, <<"\n">>)
         IN  IF HasWord(s, i, <<"/", "/">>) /\ newline # 0
             THEN <<"\n">> \o RemoveLineComments(s, newline + 1)
             ELSE <<s[i]>> \o RemoveLineComments(s, i + 1)

\* re.sub(r'/\*.*?\*/', '', s, flags=re.DOTALL)
RECURSIVE RemoveBlockComments(_, _)
RemoveBlockComments(s, i) ==
    IF i > Len(s) THEN <<>>
    ELSE LET close == FindWord(s, i + 2, <<"*", "/">>)
         IN  IF HasWord(s, i, <<"/", "*">>) /\ close # 0
             THEN RemoveBlockComments(s, close + 2)
             ELSE <<s[i]>> \o RemoveBlockComments(s, i + 1)

\* [^"\\]*(?:\\.[^"\\]*)*" from position i: the position of the closing
\* quote, 0 if the pattern does not match
RECURSIVE StringBodyEnd(_, _)
StringBodyEnd(s, i) ==
    IF i > Len(s) THEN 0
    ELSE IF s[i] = "\"" THEN i
    ELSE IF s[i] = "\\"
      THEN IF i + 1 > Len(s) THEN 0 ELSE StringBodyEnd(s, i + 2)
    ELSE StringBodyEnd(s, i + 1)

\* val.replace('\n', '\\n').replace('\r', '\\r').replace('\t', '\\t')
RECURSIVE EscapeLayout(_)
EscapeLayout(val) ==
    IF val = <<>> THEN <<>>
    ELSE (CASE Head(val) = "\n" -> <<"\\", "n">>
            [] Head(val) = "\r" -> <<"\\", "r">>
            [] Head(val) = "\t" -> <<"\\", "t">>
            [] OTHER -> <<Head(val)>>) \o EscapeLayout(Tail(val))

\* re.sub(r'":\s*"([^"\\]*(?:\\.[^"\\]*)*)"', fix_escapes, s, flags=re.DOTALL)
RECURSIVE FixEscapes(_, _)
FixEscapes(s, i) ==
    IF i > Len(s) THEN <<>>
    ELSE LET open == SkipReWs(s, i + 2)
             close == StringBodyEnd(s, open + 1)
         IN  IF HasWord(s, i, <<"\"", ":">>) /\ open <= Len(s) /\ s[open] = "\""
                  /\ close # 0
             THEN <<"\"", ":", " ", "\"">> \o EscapeLayout(SubSeq(s, open + 1, close - 1))
                      \o <<"\"">> \o FixEscapes(s, close + 1)
             ELSE <<s[i]>> \o FixEscapes(s, i + 1)

clean_json_string(s) ==
    FixEscapes(
        RemoveBlockComments(
            RemoveLineComments(
                RemoveTrailingCommas(s, 1), 1), 1), 1)

\* "".join(ch for ch in attempt
\*         if unicodedata.category(ch)[0] != "C" or ch in "\n\r\t")
StripNonPrintable(s) ==
    SelectSeq(s, LAMBDA ch : ch \notin CategoryC \/ ch \in {"\n", "\r", "\t"})

\* The quote at i toggles open_quote
TogglesQuote(s, i) == s[i] = "\"" /\ (i = 1 \/ s[i - 1] # "\\")

OpenQuote(s) == Cardinality({i \in DOMAIN s : TogglesQuote(s, i)}) % 2 = 1

\* The stack of closers after reading s[i..]; "} ]" holds a space as well
RECURSIVE Closers(_, _, _)
Closers(s, i, stack) ==
    IF i > Len(s) THEN stack
    ELSE IF s[i] = "{" THEN Closers(s, i + 1, Append(stack, "}"))
    ELSE IF s[i] = "[" THEN Closers(s, i + 1, Append(stack, "]"))
    ELSE IF s[i] \in {"}", " ", "]"} /\ stack # <<>> /\ s[i] = stack[Len(stack)]
      THEN Closers(s, i + 1, SubSeq(stack, 1, Len(stack) - 1))
    ELSE Closers(s, i + 1, stack)

Reverse(seq) == [i \in 1..Len(seq) |-> seq[Len(seq) + 1 - i]]

_rescue_truncated_json(s) ==
    LET quoted == IF OpenQuote(s) THEN Append(s, "\"") ELSE s
    IN  quoted \o Reverse(Closers(quoted, 1, <<>>))

\* The passes in another order: stripping first, the textual repairs second
NextCandidate_StripFirst(content, attempt, i) ==
    CASE i = 0 -> StripNonPrintable(content)
      [] i = 1 -> clean_json_string(attempt)
      [] i = 2 -> _rescue_truncated_json(attempt)
      [] OTHER -> attempt

\* The candidate of the next iteration after the parse of iteration i failed
NextCandidate(content, attempt, i) ==
    CASE i = 0 -> clean_json_string(content)
      [] i = 1 -> StripNonPrintable(attempt)
      [] i = 2 -> _rescue_truncated_json(attempt)
      [] OTHER -> attempt

(***************************************************************************)
(* The texts _extract_json is given                                        *)
(***************************************************************************)
RECURSIVE IntToChars(_)
IntToChars(k) ==
    IF k < 0 THEN <<"-">> \o IntToChars(0 - k)
    ELSE IF k < 10 THEN <<Digits[k + 1]>>
    ELSE IntToChars(k \div 10) \o <<Digits[(k % 10) + 1]>>

\* json.encoder.py_encode_basestring_ascii, one character
EscapeChar(c) ==
    CASE c = "\"" -> <<"\\", "\"">>
      [] c = "\\" -> <<"\\", "\\">>
      [] c = "\n" -> <<"\\", "n">>
      [] c = "\r" -> <<"\\", "r">>
      [] c = "\t" -> <<"\\", "t">>
      [] c = "\f" -> <<"\\", "f">>
      [] c = "<BS>" -> <<"\\", "b">>
      [] c = "<NUL>" -> <<"\\", "u", "0", "0", "0", "0">>
      [] c = "<VT>" -> <<"\\", "u", "0", "0", "0", "b">>
      [] c = "<ZWSP>" -> <<"\\", "u", "2", "0", "0", "b">>
      [] OTHER -> <<c>>

RECURSIVE EscapeString(_)
EscapeString(chars) ==
    IF chars = <<>> THEN <<>>
    ELSE EscapeChar(Head(chars)) \o EscapeString(Tail(chars))

Quoted(chars) == <<"\"">> \o EscapeString(chars) \o <<"\"">>

LiteralChars(name) ==
    CASE name = "null" -> <<"n", "u", "l", "l">>
      [] name = "true" -> <<"t", "r", "u", "e">>
      [] name = "false" -> <<"f", "a", "l", "s", "e">>
      [] name = "NaN" -> <<"N", "a", "N">>
      [] name = "Infinity" -> <<"I", "n", "f", "i", "n", "i", "t", "y">>
      [] OTHER -> <<"-", "I", "n", "f", "i", "n", "i", "t", "y">>

\* json.dumps(value), and the same text with a comma put before the closer
\* of every container that is not empty (trailing = TRUE)
RECURSIVE Dumps(_, _), DumpPairs(_, _, _), DumpItems(_, _, _)
Dumps(value, trailing) ==
    CASE value[1] = "obj" ->
            <<"{">> \o DumpPairs(value[2], 1, trailing)
                \o (IF trailing /\ value[2] # <<>> THEN <<",", " ">> ELSE <<>>)
                \o <<"}">>
      [] value[1] = "arr" ->
            <<"[">> \o DumpItems(value[2], 1, trailing)
                \o (IF trailing /\ value[2] # <<>> THEN <<",">> ELSE <<>>)
                \o <<"]">>
      [] value[1] = "str" -> Quoted(value[2])
      [] value[1] = "num" -> IntToChars(value[2])
      [] value[1] = "float" -> value[2]
      [] OTHER -> LiteralChars(value[2])

DumpPairs(pairs, i, trailing) ==
    IF i > Len(pairs) THEN <<>>
    ELSE (IF i > 1 THEN <<",", " ">> ELSE <<>>)
            \o Quoted(pairs[i][1]) \o <<":", " ">> \o Dumps(pairs[i][2], trailing)
            \o DumpPairs(pairs, i + 1, trailing)

DumpItems(items, i, trailing) ==
    IF i > Len(items) THEN <<>>
    ELSE (IF i > 1 THEN <<",", " ">> ELSE <<>>)
            \o Dumps(items[i], trailing) \o DumpItems(items, i + 1, trailing)

Str(chars) == <<"str", chars>>

Num(k) == <<"num", k>>

Arr(items) == <<"arr", items>>

Obj(pairs) == <<"obj", pairs>>

EmptyObject == Obj(<<>>)

NoValue == <<"none">>

\* The records the model answers with
JsonRecords ==
    << EmptyObject,
       Obj(<< <<(<<"a">>), Num(1)>> >>),
       Obj(<< <<(<<"a">>), Num(1)>>, <<(<<"b">>), Arr(<<Num(1), Num(2)>>)>> >>),
       Obj(<< <<(<<"a">>), Str(<<"x", ",", "}">>)>> >>),
       Obj(<< <<(<<"a">>), Str(<<"h", "i">>)>>, <<(<<"b">>), Arr(<<Num(1), Num(2)>>)>> >>),
       Obj(<< <<(<<"a">>), Obj(<< <<(<<"b">>), Arr(<<>>)>> >>)>>,
              <<(<<"c">>), <<"lit", "null">> >> >>),
       Obj(<< <<(<<"t">>), Str(<<"\"", "h", "\"">>)>>, <<(<<"n">>), Num(0 - 12)>> >>),
       Obj(<< <<(<<"l">>), Str(<<"a", "\n", "b">>)>> >>),
       Obj(<< <<(<<"u">>), Str(<<"h", ":", "/", "/", "x">>)>>,
              <<(<<"v">>), <<"lit", "true">> >> >>),
       Obj(<< <<(<<"a", ",", " ", "]">>), Arr(<< Obj(<< <<(<<"b">>), Str(<<"c">>)>> >>) >>)>> >>),
       Obj(<< <<(<<"k">>), Str(<<"a", "\"", ":", " ", "\"", "b">>)>> >>),
       Obj(<< <<(<<"z">>), Str(<<"<NUL>", "/", "*">>)>> >>) >>

Input(text, kind, origin) == [text |-> text, kind |-> kind, origin |-> origin]

\* json.dumps of each record
DumpInputs == [r \in DOMAIN JsonRecords |->
                  Input(Dumps(JsonRecords[r], FALSE), "dump", JsonRecords[r])]

\* The same with trailing commas
TrailingInputs == [r \in DOMAIN JsonRecords |->
                      Input(Dumps(JsonRecords[r], TRUE), "trailing", JsonRecords[r])]

\* Every proper prefix of the serialisation of record r
PrefixInputs(r) ==
    LET text == Dumps(JsonRecords[r], FALSE)
    IN  [k \in 1..Len(text) |-> Input(SubSeq(text, 1, k - 1), "prefix", JsonRecords[r])]

RECURSIVE AllPrefixInputs(_)
AllPrefixInputs(r) ==
    IF r > Len(JsonRecords) THEN <<>>
    ELSE PrefixInputs(r) \o AllPrefixInputs(r + 1)

\* {"a": 1, "b": [1,2,], }
TrailingExample ==
    <<"{", "\"", "a", "\"", ":", " ", "1", ",", " ", "\"", "b", "\"", ":", " ",
      "[", "1", ",", "2", ",", "]", ",", " ", "}">>

\* {"a": "hello, "b": [1,2
TruncatedExample ==
    <<"{", "\"", "a", "\"", ":", " ", "\"", "h", "e", "l", "l", "o", ",", " ",
      "\"", "b", "\"", ":", " ", "[", "1", ",", "2">>

\* Other answers: prose around the object, comments, raw layout and control
\* characters in values, no object at all
OtherTexts ==
    << <<"o", "k", " ", "{", "\"", "a", "\"", ":", " ", "1", "}", " ", ".">>,
       <<"{", "\"", "a", "\"", ":", " ", "1", " ", "/", "*", "c", "*", "/", "}">>,
       <<"{", "\"", "a", "\"", ":", " ", "1", ",", " ", "/", "/", "c", "\n", "\"", "b",
         "\"", ":", " ", "2", "}">>,
       <<"{", "\"", "u", "\"", ":", " ", "\"", "h", ":", "/", "/", "x", "\"", ",", "\n",
         "\"", "b", "\"", ":", " ", "1", ",", "}">>,
       <<"{", "\"", "a", "\"", ":", "\"", "l", "\n", "m", "\"", "}">>,
       <<"{", "\"", "a", "\"", ":", " ", "\"", "x", "<NUL>", "y", "\"", "}">>,
       <<"{", "\"", "a", "\"", ":", " ", "{", "\"", "b", "\"", ":", " ", "1", "}", ",",
         " ", "\"", "c", "\"", ":", " ", "\"", "h">>,
       <<"}", " ", "{">>,
       <<"n", "o">>,
       <<"[", "1", "]">> >>

OtherInputs == [k \in DOMAIN OtherTexts |-> Input(OtherTexts[k], "other", NoValue)]

Inputs ==
    DumpInputs \o TrailingInputs \o AllPrefixInputs(1) \o OtherInputs
        \o << Input(TrailingExample, "trailing", JsonRecords[3]),
              Input(TruncatedExample, "truncated", NoValue) >>

(***************************************************************************)
(* script_writer._extract_json and its caller, step by step                *)
(***************************************************************************)
NoneResult == [ok |-> FALSE, val |-> NoValue]

IdleExtract ==
    ex = [pc |-> "idle", input |-> Input(<<>>, "none", NoValue), content |-> <<>>,
          attempt |-> <<>>, i |-> 0, parses |-> 0, result |-> NoneResult,
          saved |-> <<>>]

\* The guard without its comparison of the two positions
NoBracketSpan_Unordered(start, end) == start = -1 \/ end = -1

\* if start == -1 or end == -1 or end <= start
NoBracketSpan(start, end) == start = -1 \/ end = -1 \/ end <= start

\* _extract_json(text): "if not text", then the bracket span
ExtractCall(k) ==
    /\ ex.pc = "idle"
    /\ LET text == Inputs[k].text
           start == Find(text, "{")
           end == RFind(text, "}")
       IN  ex' = IF text = <<>>
                   THEN [ex EXCEPT !.pc = "returned", !.input = Inputs[k]]
                 ELSE IF NoBracketSpan(start, end)
                   THEN [ex EXCEPT !.pc = "returned", !.input = Inputs[k],
                                   !.saved = Append(ex.saved, text)]
                 ELSE [ex EXCEPT !.pc = "loop", !.input = Inputs[k],
                                 !.content = Span(text, start, end),
                                 !.attempt = Span(text, start, end)]

\* An iteration of "for i in range(4)" whose json.loads succeeds
ParseOk ==
    /\ ex.pc = "loop"
    /\ ex.i < 4
    /\ Loads(ex.attempt).ok
    /\ ex' = [ex EXCEPT !.pc = "returned", !.parses = ex.parses + 1,
                        !.result = [ok |-> TRUE, val |-> Loads(ex.attempt).val]]

\* The raw text is saved whenever a parse fails
ParseFail_Saves ==
    /\ ex.pc = "loop"
    /\ ex.i < 4
    /\ ~Loads(ex.attempt).ok
    /\ ex' = [ex EXCEPT !.attempt = NextCandidate(ex.content, ex.attempt, ex.i),
                        !.i = ex.i + 1, !.parses = ex.parses + 1,
                        !.saved = Append(ex.saved, ex.input.text)]

\* An iteration whose json.loads raises JSONDecodeError
ParseFail ==
    /\ ex.pc = "loop"
    /\ ex.i < 4
    /\ ~Loads(ex.attempt).ok
    /\ ex' = [ex EXCEPT !.attempt = NextCandidate(ex.content, ex.attempt, ex.i),
                        !.i = ex.i + 1, !.parses = ex.parses + 1]

\* After the loop: save_failed(text); return None
GiveUp ==
    /\ ex.pc = "loop"
    /\ ex.i = 4
    /\ ex' = [ex EXCEPT !.pc = "returned", !.saved = Append(ex.saved, ex.input.text)]

\* not script_data: None, or a mapping without keys
Falsy(result) == ~result.ok \/ result.val = EmptyObject

\* generate_script: "if not script_data: raise ValueError(...)"
CallerCheck ==
    /\ ex.pc = "returned"
    /\ ex' = [ex EXCEPT !.pc = IF Falsy(ex.result) THEN "raised" ELSE "accepted"]

\* _rescue_truncated_json(s), called on its own with a serialised record or
\* a prefix of one
RescueCall(k) ==
    /\ ex.pc = "idle"
    /\ Inputs[k].kind \in {"dump", "prefix"}
    /\ ex' = [ex EXCEPT !.pc = "rescued", !.input = Inputs[k],
                        !.attempt = _rescue_truncated_json(Inputs[k].text)]

RescueNext ==
    \E k \in DOMAIN Inputs : RescueCall(k) /\ UNCHANGED notJsonVars

JsonNext ==
    \/ \E k \in DOMAIN Inputs : ExtractCall(k) /\ UNCHANGED notJsonVars
    \/ ParseOk /\ UNCHANGED notJsonVars
    \/ ParseFail /\ UNCHANGED notJsonVars
    \/ GiveUp /\ UNCHANGED notJsonVars
    \/ CallerCheck /\ UNCHANGED notJsonVars

(***************************************************************************)
(* script_writer.generate_script: full_script, and save_script             *)
(***************************************************************************)
KeyIntro == <<"i", "n", "t", "r", "o", "_", "s", "c", "r", "i", "p", "t">>

KeyStories == <<"s", "t", "o", "r", "i", "e", "s">>

KeyScript == <<"s", "c", "r", "i", "p", "t">>

KeyOutro == <<"o", "u", "t", "r", "o", "_", "s", "c", "r", "i", "p", "t">>

KeyFullScript == <<"f", "u", "l", "l", "_", "s", "c", "r", "i", "p", "t">>

KeyDate == <<"d", "a", "t", "e">>

\* datetime.now().strftime("%B %d, %Y")
Today == Str(<<"t", "o", "d", "a", "y">>)

\* mapping.get(key, default)
Get(mapping, key, default) ==
    IF \E i \in DOMAIN mapping[2] : mapping[2][i][1] = key
    THEN mapping[2][CHOOSE i \in DOMAIN mapping[2] : mapping[2][i][1] = key][2]
    ELSE default

Null == <<"lit", "null">>

\* What the model's answer holds under intro_script and outro_script: no
\* key, null, an empty text, a text
TextOptions == {NoValue, Null, Str(<<>>), Str(<<"I">>)}

\* A story: without script, with a null, an empty or a real script
StoryOptions ==
    {Obj(<<>>), Obj(<< <<KeyScript, Null>> >>), Obj(<< <<KeyScript, Str(<<>>)>> >>),
     Obj(<< <<KeyScript, Str(<<"a">>)>> >>), Obj(<< <<KeyScript, Str(<<"b">>)>> >>)}

\* What the answer holds under stories: no key, null, a list of stories
StoriesOptions ==
    {NoValue, Null}
        \cup {Arr(l) : l \in UNION {[1..k -> StoryOptions] : k \in 0..MaxStories}}

\* The mapping with the keys that are present
RECURSIVE Present(_)
Present(pairs) ==
    IF pairs = <<>> THEN <<>>
    ELSE IF Head(pairs)[2] = NoValue THEN Present(Tail(pairs))
    ELSE <<Head(pairs)>> \o Present(Tail(pairs))

Answer(intro, stories, outro) ==
    Obj(Present(<< <<KeyIntro, intro>>, <<KeyStories, stories>>, <<KeyOutro, outro>> >>))

\* The separator of full_script, halved
Separator_Single == <<"\n">>

\* "\n\n"
Separator == <<"\n", "\n">>

\* A str + x raises TypeError unless x is a str
IsStr(value) == value[1] = "str"

\* full_script += "\n\n" + story.get("script", "") for the stories from i on;
\* NoValue stands for the TypeError
RECURSIVE AddStories(_, _, _)
AddStories(full_script, stories, i) ==
    IF i > Len(stories) THEN Str(full_script)
    ELSE LET script == Get(stories[i], KeyScript, Str(<<>>))
         IN  IF ~IsStr(script) THEN NoValue
             ELSE AddStories(full_script \o Separator \o script[2], stories, i + 1)

\* script_writer.py 258-261
FullScript(script_data) ==
    LET intro == Get(script_data, KeyIntro, Str(<<>>))
        stories == Get(script_data, KeyStories, Arr(<<>>))
        outro == Get(script_data, KeyOutro, Str(<<>>))
        body == IF IsStr(intro) /\ stories[1] = "arr"
                THEN AddStories(intro[2], stories[2], 1) ELSE NoValue
    IN  IF body = NoValue \/ ~IsStr(outro) THEN NoValue
        ELSE Str(body[2] \o Separator \o outro[2])

IdleWriter ==
    sw = [pc |-> "idle", script_data |-> EmptyObject, script_json |-> NoValue,
          script_txt |-> NoValue, narration |-> NoValue]

\* generate_script from the extracted mapping to its return: "if not
\* script_data:" raises for the empty mapping, a field that is no text
\* raises TypeError
BuildScript(intro, stories, outro) ==
    /\ sw.pc = "idle"
    /\ LET script_data == Answer(intro, stories, outro)
           full_script == FullScript(script_data)
       IN  sw' = IF script_data = EmptyObject \/ full_script = NoValue
                 THEN [sw EXCEPT !.pc = "raised", !.script_data = script_data]
                 ELSE [sw EXCEPT !.pc = "returned",
                                 !.script_data =
                                     Obj(DictSet(DictSet(script_data[2],
                                                         KeyFullScript, full_script),
                                                 KeyDate, Today))]

\* save_script: script_data.json and script.txt
SaveScript ==
    /\ sw.pc = "returned"
    /\ sw' = [sw EXCEPT !.pc = "saved",
                        !.script_json = sw.script_data,
                        !.script_txt = Get(sw.script_data, KeyFullScript, Str(<<>>))]

\* "if not full_script:"
IsEmptyScript(full_script) == full_script[2] = <<>>

\* STEP 3 of run_pipeline on the document step 2 returned and saved: the
\* test of full_script, then generate_voiceover(full_script, output_dir)
Narrate ==
    /\ sw.pc = "saved"
    /\ LET full_script == Get(sw.script_data, KeyFullScript, Str(<<>>))
       IN  sw' = IF IsEmptyScript(full_script)
                   THEN [sw EXCEPT !.pc = "Script is empty!"]
                   ELSE [sw EXCEPT !.pc = "generate_voiceover",
                                   !.narration = full_script]

WriterNext ==
    \/ \E intro \in TextOptions, stories \in StoriesOptions, outro \in TextOptions :
          BuildScript(intro, stories, outro) /\ UNCHANGED notWriterVars
    \/ SaveScript /\ UNCHANGED notWriterVars
    \/ Narrate /\ UNCHANGED notWriterVars

(***************************************************************************)
(* The settings each collaborator entry point tests (config.py, .env)      *)
(***************************************************************************)
\* os.getenv(name, ""): unset, the placeholder of .env.example, or a value
GeminiKeys == {"", "your_gemini_api_key_here", "key"}

ClientIds == {"", "your_youtube_client_id_here", "id"}

BotTokens == {"", "your_telegram_bot_token_here", "token"}

\* token.pickle: missing; holding valid credentials; holding expired ones
\* with a refresh token; holding credentials that are neither
TokenFiles == {"none", "valid", "expired", "invalid"}

\* "if not v:" alone
Unset_EmptyOnly(v, placeholder) == v = ""

\* "if not v or v == <placeholder>"
Unset(v, placeholder) == v = "" \/ v = placeholder

NotCalled ==
    [pc |-> "idle", stage |-> 0, requests |-> <<>>, raised |-> "",
     returned |-> "none", fatal |-> FALSE]

Settings ==
    [GEMINI_API_KEY : GeminiKeys, YOUTUBE_CLIENT_ID : ClientIds,
     TELEGRAM_BOT_TOKEN : BotTokens, token_file : TokenFiles,
     client_secrets : BOOLEAN]

IdleConfig == cfg = [env |-> [GEMINI_API_KEY |-> "key", YOUTUBE_CLIENT_ID |-> "id",
                              TELEGRAM_BOT_TOKEN |-> "token",
                              token_file |-> "valid", client_secrets |-> TRUE],
                     call |-> NotCalled]

\* The entry point called by stage k has raised msg after the requests reqs:
\* stages 2 and 6 have no try of their own, so run_pipeline's except clause
\* follows and the run returns False
RaisedIn(k, reqs, msg) ==
    [pc |-> "called", stage |-> k, requests |-> reqs, raised |-> msg,
     returned |-> "none", fatal |-> TRUE]

\* The entry point called by stage k has returned value after the requests
ReturnedIn(k, reqs, value) ==
    [pc |-> "called", stage |-> k, requests |-> reqs, raised |-> "",
     returned |-> value, fatal |-> FALSE]

\* STEP 2: generate_script(articles), from its key check to the model call
GenerateScript(ok) ==
    /\ cfg.call.pc = "idle"
    /\ cfg' = [cfg EXCEPT !.call =
                 IF Unset(cfg.env.GEMINI_API_KEY, "your_gemini_api_key_here")
                   THEN RaisedIn(2, <<>>, "GEMINI_API_KEY not set!")
                 ELSE IF ok THEN ReturnedIn(2, <<"generate_content">>, "script")
                 ELSE RaisedIn(2, <<"generate_content">>, "other")]

\* STEP 6: upload_video, from get_authenticated_service to videos().insert.
\* auth_ok: the token refresh or the browser flow succeeds.
UploadVideo(auth_ok, ok) ==
    /\ cfg.call.pc = "idle"
    /\ LET env == cfg.env
           insert == IF ok THEN ReturnedIn(6, <<"videos.insert">>, "url")
                     ELSE RaisedIn(6, <<"videos.insert">>, "other")
           After(req) ==
               IF ~auth_ok THEN RaisedIn(6, <<req>>, "other")
               ELSE IF ok THEN ReturnedIn(6, <<req, "videos.insert">>, "url")
               ELSE RaisedIn(6, <<req, "videos.insert">>, "other")
       IN  IF env.token_file = "valid"
             THEN cfg' = [cfg EXCEPT !.call = insert]
           ELSE IF env.token_file = "expired"
             THEN cfg' = [cfg EXCEPT
                            !.call = After("refresh"),
                            !.env.token_file =
                                IF auth_ok THEN "valid" ELSE "expired"]
           ELSE IF ~env.client_secrets
                   /\ Unset(env.YOUTUBE_CLIENT_ID, "your_youtube_client_id_here")
             THEN cfg' = [cfg EXCEPT
                            !.call = RaisedIn(6, <<>>,
                                              "YouTube credentials not set!")]
           ELSE cfg' = [cfg EXCEPT
                          !.call = After("run_local_server"),
                          !.env.client_secrets = TRUE,
                          !.env.token_file =
                              IF auth_ok THEN "valid" ELSE env.token_file]

\* STEP 7: post_to_telegram, whose return value run_pipeline drops
PostToTelegram(ok) ==
    /\ cfg.call.pc = "idle"
    /\ cfg' = [cfg EXCEPT !.call =
                 IF Unset(cfg.env.TELEGRAM_BOT_TOKEN, "your_telegram_bot_token_here")
                   THEN ReturnedIn(7, <<>>, "False")
                 ELSE ReturnedIn(7, <<"sendMessage">>,
                                 IF ok THEN "True" ELSE "False")]

\* STEP 8: send_notification and send_daily_summary, whose return values
\* run_pipeline drops; returned is the first one's
SendNotification(ok) ==
    /\ cfg.call.pc = "idle"
    /\ cfg' = [cfg EXCEPT !.call =
                 IF Unset(cfg.env.TELEGRAM_BOT_TOKEN, "your_telegram_bot_token_here")
                   THEN ReturnedIn(8, <<>>, "False")
                 ELSE ReturnedIn(8, <<"sendMessage", "sendMessage">>,
                                 IF ok THEN "True" ELSE "False")]

ConfigNext ==
    \/ \E ok \in BOOLEAN : GenerateScript(ok) /\ UNCHANGED notConfigVars
    \/ \E a \in BOOLEAN, ok \in BOOLEAN : UploadVideo(a, ok) /\ UNCHANGED notConfigVars
    \/ \E ok \in BOOLEAN : PostToTelegram(ok) /\ UNCHANGED notConfigVars
    \/ \E ok \in BOOLEAN : SendNotification(ok) /\ UNCHANGED notConfigVars

(***************************************************************************)
(* modules/news_fetcher.py: fetch_news                                     *)
(***************************************************************************)
\* Entry titles as a feed gives them, in the Google News form
\* "Title - Source": "A - x", "A - y", "a - x", " A"
EntryTitles ==
    {<<"A", " ", "-", " ", "x">>, <<"A", " ", "-", " ", "y">>,
     <<"a", " ", "-", " ", "x">>, <<" ", "A">>}

\* What feedparser.parse does for one feed: it raises, or it returns the
\* feed with its entries
FeedOutcomes ==
    {[raises |-> TRUE, entries |-> <<>>]} \cup
    {[raises |-> FALSE, entries |-> e] :
        e \in UNION {[1..n -> EntryTitles] : n \in 0..MaxEntries}}

NumFeeds == 2

\* str.strip, for the blank
RECURSIVE LStrip(_)
LStrip(s) == IF s # <<>> /\ s[1] = " " THEN LStrip(Tail(s)) ELSE s

RECURSIVE RStrip(_)
RStrip(s) ==
    IF s # <<>> /\ s[Len(s)] = " " THEN RStrip(SubSeq(s, 1, Len(s) - 1)) ELSE s

Strip(s) == LStrip(RStrip(s))

TitleSeparator == <<" ", "-", " ">>

\* title.rsplit(" - ", 1), for a title that holds the separator
RSplit(title) ==
    LET at == CHOOSE i \in 1..(Len(title) - 2) :
                /\ SubSeq(title, i, i + 2) = TitleSeparator
                /\ \A j \in (i + 1)..(Len(title) - 2) :
                      SubSeq(title, j, j + 2) # TitleSeparator
    IN  <<SubSeq(title, 1, at - 1), SubSeq(title, at + 3, Len(title))>>

\* The article of an entry: the source is split off the title
Article(title) ==
    IF Contains(title, TitleSeparator)
      THEN [title |-> Strip(RSplit(title)[1]), source |-> Strip(RSplit(title)[2])]
      ELSE [title |-> title, source |-> <<>>]

\* title_lower = title.lower(), the key of seen_titles
SeenKey(title) == Lower(title)

\* "for entry in feed.entries:" from entry k on, with its "continue" and
\* its "break"
RECURSIVE AddEntries(_, _, _, _, _)
AddEntries(entries, k, all_articles, seen_titles, max_articles) ==
    IF k > Len(entries)
      THEN [all_articles |-> all_articles, seen_titles |-> seen_titles]
    ELSE LET title == Strip(entries[k])
         IN  IF SeenKey(title) \in seen_titles
               THEN AddEntries(entries, k + 1, all_articles, seen_titles,
                               max_articles)
             ELSE LET more == Append(all_articles, Article(title))
                      seen == seen_titles \cup {SeenKey(title)}
                  IN  IF Len(more) >= max_articles
                        THEN [all_articles |-> more, seen_titles |-> seen]
                        ELSE AddEntries(entries, k + 1, more, seen, max_articles)

NotFetching ==
    [pc |-> "idle", feed |-> 0, max_articles |-> 0, all_articles |-> <<>>,
     seen_titles |-> {}, returned |-> <<>>]

IdleFeed == fn = [rss_feeds |-> <<>>, call |-> NotFetching]

\* fetch_news(max_articles = n) is called
FetchNews(n) ==
    /\ fn.call.pc = "idle"
    /\ fn' = [fn EXCEPT !.call = [NotFetching EXCEPT !.pc = "loop", !.feed = 1,
                                                     !.max_articles = n]]

\* "for feed_url in rss_feeds:" is over, or was left by the outer break
LoopOver ==
    \/ fn.call.feed > Len(fn.rss_feeds)
    \/ fn.call.feed > 1 /\ Len(fn.call.all_articles) >= fn.call.max_articles

\* feedparser.parse raises: the error is logged, "continue"
FeedRaises ==
    /\ fn.call.pc = "loop" /\ ~LoopOver
    /\ fn.rss_feeds[fn.call.feed].raises
    /\ fn' = [fn EXCEPT !.call.feed = fn.call.feed + 1]

\* feedparser.parse returns the feed and its entries are gone through
FeedParsed ==
    /\ fn.call.pc = "loop" /\ ~LoopOver
    /\ ~fn.rss_feeds[fn.call.feed].raises
    /\ LET got == AddEntries(fn.rss_feeds[fn.call.feed].entries, 1, fn.call.all_articles,
                             fn.call.seen_titles, fn.call.max_articles)
       IN  fn' = [fn EXCEPT !.call.feed = fn.call.feed + 1,
                            !.call.all_articles = got.all_articles,
                            !.call.seen_titles = got.seen_titles]

\* return all_articles[:max_articles]
FetchReturn ==
    /\ fn.call.pc = "loop" /\ LoopOver
    /\ fn' = [fn EXCEPT
                !.call.pc = "done",
                !.call.returned =
                    SubSeq(fn.call.all_articles, 1,
                           IF Len(fn.call.all_articles) < fn.call.max_articles
                             THEN Len(fn.call.all_articles)
                             ELSE fn.call.max_articles)]

FeedNext ==
    \/ \E n \in 1..MaxFetch : FetchNews(n) /\ UNCHANGED notFeedVars
    \/ FeedRaises /\ UNCHANGED notFeedVars
    \/ FeedParsed /\ UNCHANGED notFeedVars
    \/ FetchReturn /\ UNCHANGED notFeedVars

(***************************************************************************)
(* The specifications                                                      *)
(***************************************************************************)
Init == InitDash /\ IdlePipe /\ disk = EmptyDisk /\ IdleGen /\ IdleExtract /\ IdleWriter /\ IdleResume /\ IdleConfig /\ IdleFeed

Spec == Init /\ [][Next]_vars

InitPipe == InitDash /\ IdlePipe /\ disk \in InitialDisks /\ IdleGen /\ IdleExtract /\ IdleWriter /\ IdleResume /\ IdleConfig /\ IdleFeed

SpecPipe == InitPipe /\ [][PipeNext]_vars

InitResume ==
    /\ InitDash /\ IdlePipe /\ IdleGen /\ IdleExtract /\ IdleWriter /\ IdleConfig /\ IdleFeed
    /\ disk \in ResumeDisks
    /\ \E st \in Stubs, dry \in BOOLEAN :
          rs = [phase |-> "start", dry_run |-> dry, stub |-> st,
                before |-> disk, single |-> EmptyDisk]

SpecResume == InitResume /\ [][ResumeNext]_vars

InitGen == InitDash /\ IdlePipe /\ disk = EmptyDisk /\ IdleGen /\ IdleExtract /\ IdleWriter /\ IdleResume /\ IdleConfig /\ IdleFeed

SpecGen == InitGen /\ [][GenNext]_vars

InitJson == InitDash /\ IdlePipe /\ disk = EmptyDisk /\ IdleGen /\ IdleExtract /\ IdleWriter /\ IdleResume /\ IdleConfig /\ IdleFeed

SpecJson == InitJson /\ [][JsonNext]_vars

SpecRescue == InitJson /\ [][RescueNext]_vars

InitWriter ==
    InitDash /\ IdlePipe /\ disk = EmptyDisk /\ IdleGen /\ IdleExtract /\ IdleWriter /\ IdleResume /\ IdleConfig /\ IdleFeed

SpecWriter == InitWriter /\ [][WriterNext]_vars

InitConfig ==
    /\ InitDash /\ IdlePipe /\ disk = EmptyDisk /\ IdleGen /\ IdleExtract
    /\ IdleWriter /\ IdleResume /\ IdleFeed
    /\ cfg \in [env : Settings, call : {NotCalled}]

SpecConfig == InitConfig /\ [][ConfigNext]_vars

InitFeed ==
    /\ InitDash /\ IdlePipe /\ disk = EmptyDisk /\ IdleGen /\ IdleExtract
    /\ IdleWriter /\ IdleResume /\ IdleConfig
    /\ fn \in [rss_feeds : [1..NumFeeds -> FeedOutcomes], call : {NotFetching}]

SpecFeed == InitFeed /\ [][FeedNext]_vars

(***************************************************************************)
(* C1: at most one background worker (_run_pipeline_bg or                  *)
(* _upload_manual_bg) is executing in any reachable state.                 *)
(***************************************************************************)
C1_AtMostOneRun == Cardinality({t \in TaskIds : Executing(t)}) <= 1

(***************************************************************************)
(* C2: a start request (run_pipeline, run_now) answered while the status   *)
(* is "running" is answered 400, queues no background task and changes no  *)
(* run state; one answered while the status is "completed" or "failed" is  *)
(* answered 200 and queues the background task of a new run.               *)
(***************************************************************************)
C2_StartRequestGuard ==
    [][reply'.seq # reply.seq =>
          /\ pipeline_state.status = "running" =>
                /\ reply'.code = 400
                /\ bg' = bg
                /\ pipeline_state' = pipeline_state
                /\ handlers' = handlers
                /\ results_file' = results_file
          /\ pipeline_state.status \in {"completed", "failed"} =>
                /\ reply'.code = 200
                /\ \E t \in TaskIds :
                      /\ bg[t].pc = "none"
                      /\ bg'[t].pc = "queued"
                      /\ bg'[t].kind \in {"pipeline", "scheduled"}]_vars

\* A start request has been rejected while a worker was running.
C2_Witness ==
    /\ reply.code = 400
    /\ pipeline_state.status = "running"
    /\ \E t \in TaskIds : Executing(t)

(***************************************************************************)
(* C3: once a stop request has arrived while a worker was executing stage  *)
(* k, that worker starts no stage after k.                                 *)
(***************************************************************************)
C3_NoStageAfterStop == \A t \in TaskIds : ~bg[t].late

(***************************************************************************)
(* Dry run and the cross-post stage (SpecPipe)                             *)
(***************************************************************************)
ExecutedStages == {trace.executed[i] : i \in DOMAIN trace.executed}

\* C4: in a run with dry_run = true, whatever the range and the outcomes of
\* the stages, none of upload_video, create_short_clip, upload_short,
\* post_to_telegram, send_notification, send_daily_summary is called.
C4_DryRunNoExternalCall ==
    run.dry_run => \A i \in DOMAIN calls : calls[i] \notin ExternalCalls

\* C5 (as stated): a dry run that returned True has, for each of the stages
\* 6, 7, 8 of its range, a "skipped" entry in the results summary it wrote.
C5_SkippedInSummary ==
    (run.dry_run /\ run.ret = "True") =>
        \A k \in {6, 7, 8} :
            InRange(k, run.start_step, run.end_step) =>
                \E key \in KeysOfStage(k) : disk.summary.map[key] \in SkippedValues

\* C5 (amended): in a dry run each of the stages 6, 7, 8 that is entered logs
\* its SKIPPED line and never fails; stage 6 records upload_status and stage 7
\* short_status and telegram_status as skipped, stage 8 records nothing; a run
\* in which no stage failed returns True, having entered every such stage of
\* its range and written the results as the summary.
C5_DryRunSkips ==
    run.dry_run =>
        /\ \A k \in {6, 7, 8} :
              /\ k \in ExecutedStages => k \in trace.skipped
              /\ trace.failure.stage # k
              /\ (run.ret = "True" /\ InRange(k, run.start_step, run.end_step))
                    => k \in ExecutedStages
        /\ 6 \in ExecutedStages => results["upload_status"] = "skipped (dry run)"
        /\ 7 \in ExecutedStages =>
              /\ results["short_status"] = "skipped"
              /\ results["telegram_status"] = "skipped"
        /\ \A key \in ResultKeys :
              results[key] \in SkippedValues => key \in KeysOfStage(6) \cup KeysOfStage(7)
        /\ run.pc = AtReturn =>
              /\ trace.failure = NoFailure <=> run.ret = "True"
              /\ run.ret = "True" => disk.summary = [present |-> TRUE, map |-> results]

\* A dry run over the stages 6 to 8 has returned True
C5_Witness ==
    /\ run.dry_run
    /\ run.ret = "True"
    /\ run.start_step = 6
    /\ trace.skipped = {6, 7, 8}
    /\ disk.summary.map["upload_status"] = "skipped (dry run)"

\* C6: in a run that is not dry, no failure of a collaborator of stage 7
\* (create_short_clip, upload_short, post_to_telegram) ends the run: the run
\* does not fail at stage 7 because of a collaborator.
C6_Stage7FailureNotFatal ==
    ~run.dry_run => trace.failure # [stage |-> 7, cause |-> "collaborator"]

(***************************************************************************)
(* Rate-limit fallback (SpecGen)                                           *)
(***************************************************************************)
\* The calls made so far to model m, in order
RECURSIVE CallsTo(_, _)
CallsTo(m, hist) ==
    IF hist = <<>> THEN <<>>
    ELSE IF Head(hist)[1] = m THEN <<Head(hist)[2]>> \o CallsTo(m, Tail(hist))
    ELSE CallsTo(m, Tail(hist))

\* Every call to the configured model was rate-limited and the next model,
\* if called at all, succeeded on its first call
AlwaysRateLimitedThenOk ==
    /\ Len(gen.models) >= 2
    /\ \A i \in DOMAIN attempts :
          attempts[i][1] = gen.models[1] => attempts[i][2] = "rate"
    /\ CallsTo(gen.models[2], attempts) # <<>> =>
          Head(CallsTo(gen.models[2], attempts)) = "ok"

\* C7: when every call to the configured model A is rate-limited and the
\* next distinct model B succeeds on its first call, generate_script ends
\* with B's response after exactly three attempts on A and one on B.
C7_RateLimitFallback ==
    LET A == gen.models[1]
        B == gen.models[2]
    IN  (gen.pc \in {"after", "responded", "raised"} /\ AlwaysRateLimitedThenOk) =>
            /\ attempts = <<<<A, "rate">>, <<A, "rate">>, <<A, "rate">>, <<B, "ok">>>>
            /\ A # B
            /\ gen.response = B
            /\ gen.pc # "raised"

\* A is configured away from the fallbacks, is rate-limited three times, and
\* the first fallback has answered
C7_Witness ==
    /\ gen.pc = "responded"
    /\ AlwaysRateLimitedThenOk
    /\ gen.models[1] = "gemini-1.5-pro"
    /\ gen.response = "gemini-2.5-flash"
    /\ Len(attempts) = 4

(***************************************************************************)
(* The extractor (SpecJson)                                                *)
(***************************************************************************)
Settled == ex.pc \in {"raised", "accepted"}

\* C8 (as stated): for every record serialised with json.dumps and given as
\* the answer, extraction and the caller's check recover an equal record and
\* raise no extraction error.
C8_RoundTrip ==
    (Settled /\ ex.input.kind = "dump") =>
        /\ ex.pc = "accepted"
        /\ ex.result.ok
        /\ ex.result.val = ex.input.origin

\* C8 (amended): for every record with at least one key, serialised with
\* json.dumps and given as the answer, _extract_json returns an equal record
\* from its first parse, writes no debug file, and the caller's check raises
\* no extraction error.
C8_RoundTripNonEmpty ==
    (ex.pc \in {"returned", "raised", "accepted"} /\ ex.input.kind = "dump"
         /\ ex.input.origin # EmptyObject) =>
        /\ ex.result.ok
        /\ ex.result.val = ex.input.origin
        /\ ex.i = 0
        /\ ex.saved = <<>>
        /\ ex.pc # "raised"

\* The record whose value holds a comma and a closing brace has come back
C8_Witness ==
    /\ ex.pc = "accepted"
    /\ ex.input.kind = "dump"
    /\ ex.input.origin = JsonRecords[4]
    /\ ex.result.val = JsonRecords[4]

\* C9: for a text that is a serialised record but for commas put before its
\* closing braces and brackets, _extract_json returns the record.
C9_TrailingCommaRepair ==
    (ex.pc = "returned" /\ ex.input.kind = "trailing") =>
        /\ ex.result.ok
        /\ ex.result.val = ex.input.origin

\* C10: for the answer {"a": "hello, "b": [1,2 that is cut off inside
\* a value, _extract_json returns a mapping and reports no failure.
C10_TruncationRescue ==
    (ex.pc = "returned" /\ ex.input.kind = "truncated") =>
        /\ ex.result.ok
        /\ ex.saved = <<>>

\* No "{" of the text stands before a "}" of it
NoSpan(text) ==
    ~\E a \in DOMAIN text, b \in DOMAIN text :
        a < b /\ text[a] = "{" /\ text[b] = "}"

\* C11: for a text without "{", without "}" or whose last "}" is not after
\* its first "{", _extract_json returns None without a single json.loads;
\* and a value it returns is a mapping, the complete parse of the candidate
\* text of that iteration.
C11_FailsClosed ==
    /\ (ex.pc # "idle" /\ NoSpan(ex.input.text)) =>
          /\ ex.pc \in {"returned", "raised"}
          /\ ~ex.result.ok
          /\ ex.parses = 0
    /\ ex.result.ok =>
          /\ ex.result.val[1] = "obj"
          /\ Loads(ex.attempt).ok
          /\ Loads(ex.attempt).val = ex.result.val
          /\ SkipWs(ex.attempt, Loads(ex.attempt).pos) = Len(ex.attempt) + 1
          /\ ~NoSpan(ex.input.text)

\* The answer "} {" came back as None, unparsed
C11_Witness ==
    /\ ex.pc = "returned"
    /\ ex.input.text = <<"}", " ", "{">>
    /\ ~ex.result.ok
    /\ ex.parses = 0
    /\ ex.saved = <<ex.input.text>>

(***************************************************************************)
(* The script document (SpecWriter)                                        *)
(***************************************************************************)
\* The text under a key, a missing key counting as the empty text
TextOf(mapping, key) == Get(mapping, key, Str(<<>>))[2]

\* The texts joined by a blank line
RECURSIVE JoinBlankLine(_)
JoinBlankLine(texts) ==
    IF Len(texts) = 1 THEN texts[1]
    ELSE texts[1] \o <<"\n", "\n">> \o JoinBlankLine(Tail(texts))

ScriptParts(script_data) ==
    LET stories == Get(script_data, KeyStories, Arr(<<>>))[2]
    IN  <<TextOf(script_data, KeyIntro)>>
            \o [i \in 1..Len(stories) |-> TextOf(stories[i], KeyScript)]
            \o <<TextOf(script_data, KeyOutro)>>

\* C12: in every document generate_script returns, full_script is
\* intro_script, each story's script in list order and outro_script joined
\* by "\n\n", a missing field counting as empty; save_script writes that
\* document to script_data.json and that text to script.txt.
C12_FullScriptConcatenation ==
    /\ sw.pc \in {"returned", "saved"} =>
          Get(sw.script_data, KeyFullScript, NoValue)
              = Str(JoinBlankLine(ScriptParts(sw.script_data)))
    /\ sw.pc = "saved" =>
          /\ sw.script_txt = Str(JoinBlankLine(ScriptParts(sw.script_data)))
          /\ sw.script_json = sw.script_data

\* A document without intro_script and with two stories has been saved
C12_Witness ==
    /\ sw.pc = "saved"
    /\ Get(sw.script_data, KeyIntro, NoValue) = NoValue
    /\ sw.script_txt = Str(<<"\n", "\n", "a", "\n", "\n", "b", "\n", "\n", "I">>)

\* What Claim C13 compares: script, audio and video of the directory
Artifacts(d) == <<d.script_data, d.voiceover, d.final_video>>

Resumed == rs.phase = "resumed" /\ run.pc = AtReturn

\* C13: with the collaborators fixed, once run_pipeline(1,1) and then
\* run_pipeline(2,8) have returned, the directory holds the same script,
\* voiceover and video as run_pipeline(1,8) left on the same directory, for
\* every article list step 1 returns.
C13_IdempotentResume == Resumed => Artifacts(disk) = Artifacts(rs.single)

\* The resumed call built script, voiceover and video from the non-empty
\* list that only the first call held in memory.
C13_Witness ==
    /\ Resumed
    /\ rs.stub.articles = MaxArticles
    /\ rs.before = EmptyDisk
    /\ trace.executed = <<2, 3, 4, 5, 6, 7, 8>>
    /\ Artifacts(disk) = <<Doc(MaxArticles, "text"), MaxArticles, MaxArticles>>

\* Task t starts a run: its worker sets the status to "running"
StartsRun(t) == bg[t].pc = "queued" /\ bg'[t].pc \in {"run", "upload"}

\* C14: a step by which a worker starts a run, no other worker executing,
\* leaves a snapshot whose log holds entries of that run only and whose
\* results are empty: nothing of an earlier run is left.
C14_LedgerReset ==
    [][\A t \in TaskIds :
          (StartsRun(t) /\ \A u \in TaskIds : ~Executing(u)) =>
              /\ pipeline_state'.status = "running"
              /\ \A i \in DOMAIN pipeline_state'.log :
                    pipeline_state'.log[i][1] = t
              /\ pipeline_state'.results = NoRun]_vars

\* main.run_pipeline returned False to worker t, which it does when a stage
\* raised and only then, and the worker has set the status
FailedByStage(t) ==
    /\ bg[t].kind \in {"pipeline", "scheduled", "cron"}
    /\ bg[t].pc = "load"
    /\ ~bg[t].success

\* C15: when a run has ended with status "failed" because a stage raised,
\* the snapshot the status endpoint returns has its error field set.
C15_FailureCarriesError ==
    \A t \in TaskIds :
        (FailedByStage(t) /\ pipeline_state.status = "failed") =>
            pipeline_state.error

(***************************************************************************)
(* Missing inputs and the order of the stages (SpecPipe)                   *)
(***************************************************************************)
\* Stage k, about to be entered, has neither in the carry-state nor in the
\* directory what it reads: the article list (2), the script (3 to 7, the
\* publishing stages only outside a dry run), the voiceover (4).
ScriptMissing ==
    locals.script_data.kind = "empty" /\ disk.script_data.kind = "none"

InputMissing(k) ==
    /\ StageInRange(k)
    /\ CASE k = 2 -> locals.articles = 0 /\ disk.raw_articles = -1
         [] k = 3 -> ScriptMissing
         [] k = 4 -> \/ ScriptMissing
                     \/ (~locals.voiceover_path /\ disk.voiceover = -1)
         [] k = 5 -> ScriptMissing
         [] k \in {6, 7} -> ~run.dry_run /\ ScriptMissing
         [] OTHER -> FALSE

\* A publishing stage, about to be entered outside a dry run, has no video
\* file to publish (the path it passes on is the default one)
VideoMissing(k) ==
    StageInRange(k) /\ k \in {6, 7} /\ ~run.dry_run /\ disk.final_video = -1

Occurrences(seq, x) == Cardinality({i \in DOMAIN seq : seq[i] = x})

\* C16: a stage of the range that finds its input missing in the
\* carry-state and in the directory fails at once: it calls no collaborator
\* and writes nothing, control goes to the except clause, the stage is not
\* entered again, no later stage is entered, and run_pipeline returns False.
\* A publishing stage without a video file fails as well, in its collaborator.
C16_PreconditionFatal ==
    /\ [][\A k \in Stages :
             /\ InputMissing(k) =>
                   /\ run'.pc = AtExcept
                   /\ trace'.failure = [stage |-> k, cause |-> "precondition"]
                   /\ calls' = calls /\ disk' = disk /\ results' = results
             /\ VideoMissing(k) =>
                   /\ run'.pc = AtExcept
                   /\ trace'.failure.stage = k
                   /\ disk' = disk /\ results' = results]_vars
    /\ [](trace.failure.cause = "precondition" =>
             /\ run.pc \in {AtExcept, AtReturn}
             /\ trace.executed[Len(trace.executed)] = trace.failure.stage
             /\ Occurrences(trace.executed, trace.failure.stage) = 1
             /\ run.pc = AtReturn => run.ret = "False")

\* Stages 3 to 5 were asked for with no script anywhere: stage 3 failed,
\* stages 4 and 5 were not entered, False was returned.
C16_Witness ==
    /\ run.pc = AtReturn /\ run.ret = "False"
    /\ run.start_step = 3 /\ run.end_step = 5
    /\ disk.script_data = NoFile
    /\ trace.failure = [stage |-> 3, cause |-> "precondition"]
    /\ trace.executed = <<3>>

\* What stage k leaves in the directory (stages 6 and 8 leave no file)
ArtifactsExist(k) ==
    CASE k = 1 -> disk.raw_articles # -1
      [] k = 2 -> disk.script_data.kind # "none"
      [] k = 3 -> disk.voiceover # -1
      [] k = 4 -> disk.final_video # -1
      [] k = 5 -> disk.thumbnail # -1
      [] k = 7 -> disk.short_clip # -1
      [] OTHER -> TRUE

\* Stage k does its work in this step: it calls a collaborator
DoesWork(k) == run.pc = k /\ calls' # calls

\* Stage k does its work and ends normally
Completes(k) == DoesWork(k) /\ run'.pc = k + 1

\* C17 (as stated): whenever a stage k of 2..8 does its work (here: to its
\* normal end), the files of stage k-1 are in the directory.
C17_StageOrder ==
    [][\A k \in 2..NumStages : Completes(k) => ArtifactsExist(k - 1)]_vars

\* C17 (amended): whenever a stage k of 2..8 does its work, what that stage
\* reads is there, in the carry-state or in the directory: the article list
\* (2), a script with a non-empty full_script (3), script and voiceover (4),
\* the script (5, 6, 7); and stages 6 and 7 end normally outside a dry run
\* only with the video file there.  The thumbnail is not needed by stage 6,
\* nor the video by stage 5, nor anything by stage 8.
C17_StageInputs ==
    [][\A k \in 2..NumStages :
          /\ DoesWork(k) => ~InputMissing(k)
          /\ (DoesWork(k) /\ k = 3) => ScriptOrFile.full # "empty"
          /\ (Completes(k) /\ k \in {6, 7}) => disk.final_video # -1]_vars

\* Stage 6 has uploaded the video of a directory that has no thumbnail.
C17_Witness ==
    /\ run.start_step = 6
    /\ run.pc = 7
    /\ results["upload_status"] = "uploaded"
    /\ calls = <<"upload_video">>
    /\ disk.thumbnail = -1 /\ disk.final_video # -1

(***************************************************************************)
(* The status of the snapshot (Spec)                                       *)
(***************************************************************************)
\* The changes of status Claim C18 allows, those into and out of "stopping"
\* during a run included
StatusChanges ==
    {<<"idle", "running">>, <<"running", "completed">>, <<"running", "failed">>,
     <<"completed", "running">>, <<"failed", "running">>,
     <<"running", "stopping">>, <<"stopping", "completed">>,
     <<"stopping", "failed">>}

\* C18: the status changes only from idle to running, from running to
\* completed or failed (by way of stopping or not) and from completed or
\* failed to running; and it is "stopping" only while a worker is executing.
C18_StatusMachine ==
    /\ [][pipeline_state'.status # pipeline_state.status =>
             <<pipeline_state.status, pipeline_state'.status>> \in StatusChanges]_vars
    /\ [](pipeline_state.status = "stopping" => \E t \in TaskIds : Executing(t))

(***************************************************************************)
(* The retry loop (SpecGen)                                                *)
(***************************************************************************)
\* The order Claim C19 gives for a configured model c
FixedOrder(c) ==
    IF c = "gemini-2.5-flash"
      THEN <<"gemini-2.5-flash", "gemini-2.0-flash", "gemini-2.0-flash-lite">>
    ELSE IF c = "gemini-2.0-flash"
      THEN <<"gemini-2.0-flash", "gemini-2.5-flash", "gemini-2.0-flash-lite">>
    ELSE IF c = "gemini-2.0-flash-lite"
      THEN <<"gemini-2.0-flash-lite", "gemini-2.5-flash", "gemini-2.0-flash">>
    ELSE <<c, "gemini-2.5-flash", "gemini-2.0-flash", "gemini-2.0-flash-lite">>

\* The place of the model of the i-th call in the list of models
PlaceOfCall(i) == CHOOSE j \in DOMAIN gen.models : gen.models[j] = attempts[i][1]

\* C19: generate_content is called at most 3 times per model, on at most 4
\* distinct models, 12 times at most; the models are the configured one and
\* then gemini-2.5-flash, gemini-2.0-flash, gemini-2.0-flash-lite, each once,
\* tried in that order without skipping; the loop can go on only below the
\* bound; no call follows a successful one, whose response is the result;
\* and when no call succeeded, every model having been tried, generate_script
\* raises the last error.
C19_BoundedRetry ==
    gen.pc # "idle" =>
        /\ gen.models = FixedOrder(gen.models[1])
        /\ Len(gen.models) <= 4
        /\ Len(attempts) <= 12
        /\ gen.pc = "try" => Len(attempts) < 3 * Len(gen.models)
        /\ \A i \in DOMAIN attempts :
              /\ \E j \in DOMAIN gen.models : gen.models[j] = attempts[i][1]
              /\ Len(CallsTo(attempts[i][1], attempts)) <= 3
              /\ attempts[i][2] = "ok" => i = Len(attempts)
              /\ i = 1 => PlaceOfCall(i) = 1
              /\ i > 1 => PlaceOfCall(i) \in {PlaceOfCall(i - 1), PlaceOfCall(i - 1) + 1}
        /\ (attempts # <<>> /\ attempts[Len(attempts)][2] = "ok") =>
              /\ gen.pc \in {"after", "responded"}
              /\ gen.response = attempts[Len(attempts)][1]
        /\ gen.pc = "responded" =>
              attempts # <<>> /\ attempts[Len(attempts)][2] = "ok"
        /\ gen.pc = "raised" =>
              /\ attempts # <<>>
              /\ \A i \in DOMAIN attempts : attempts[i][2] # "ok"
              /\ \A j \in DOMAIN gen.models : CallsTo(gen.models[j], attempts) # <<>>
              /\ gen.last_error = attempts[Len(attempts)][2]

\* Four distinct models, each rate-limited three times: twelve calls, and
\* the last error raised
C19_Witness ==
    /\ gen.pc = "raised"
    /\ Len(attempts) = 12
    /\ Len(gen.models) = 4
    /\ \A i \in DOMAIN attempts : attempts[i][2] = "rate"
    /\ gen.last_error = "rate"

\* A call of generate_content is made in this step and raises
CallRaises ==
    /\ gen.pc = "try"
    /\ Len(attempts') = Len(attempts) + 1
    /\ attempts'[Len(attempts')][2] # "ok"

\* The message has neither "429" nor "quota" (in whatever case) in it
NotRateLimit(err_str) ==
    /\ \A i \in 1..(Len(err_str) - 2) : SubSeq(err_str, i, i + 2) # <<"4", "2", "9">>
    /\ \A i \in 1..(Len(err_str) - 4) :
          Lower(SubSeq(err_str, i, i + 4)) # <<"q", "u", "o", "t", "a">>

\* C20: a call that raises an error whose message has neither "429" nor
\* "quota" in it is the last call to its model: nothing is slept, and the
\* loop goes to the first attempt on the next model (or ends, after the
\* last model); a call that raises a rate-limit error on attempt 0, 1, 2 is
\* followed by a sleep of 5, 15, 30 seconds, and by the next attempt on the
\* same model after attempts 0 and 1.
C20_ErrorHandling ==
    /\ [][CallRaises =>
            IF NotRateLimit(gen'.err_str)
              THEN /\ gen'.slept = gen.slept
                   /\ attempts'[Len(attempts')] = <<gen.models[gen.model], "other">>
                   /\ IF gen.model < Len(gen.models)
                        THEN /\ gen'.pc = "try"
                             /\ gen'.model = gen.model + 1
                             /\ gen'.attempt = 0
                        ELSE gen'.pc = "after"
              ELSE /\ gen.attempt \in 0..2
                   /\ gen'.slept - gen.slept =
                        CASE gen.attempt = 0 -> 5
                          [] gen.attempt = 1 -> 15
                          [] gen.attempt = 2 -> 30
                   /\ gen.attempt < 2 =>
                        /\ gen'.pc = "try"
                        /\ gen'.model = gen.model
                        /\ gen'.attempt = gen.attempt + 1]_vars
    /\ [](\A i \in DOMAIN attempts :
             attempts[i][2] = "other" =>
                 \A j \in DOMAIN attempts : j > i => attempts[j][1] # attempts[i][1])

\* Three rate-limit errors on the configured model (50 seconds slept), then
\* another error on the first fallback and at once a response of the second
C20_Witness ==
    /\ gen.pc = "responded"
    /\ attempts = <<<<"gemini-1.5-pro", "rate">>, <<"gemini-1.5-pro", "rate">>,
                    <<"gemini-1.5-pro", "rate">>, <<"gemini-2.5-flash", "other">>,
                    <<"gemini-2.0-flash", "ok">>>>
    /\ gen.slept = 50
    /\ gen.err_str = <<"5", "0", "0", " ", "d", "o", "w", "n">>

(***************************************************************************)
(* The extractor's passes and its debug file (SpecJson)                    *)
(***************************************************************************)
\* The text the j-th parse attempt (counted from 0) is made on, as Claim C21
\* lists them
Candidate(j) ==
    CASE j = 0 -> ex.content
      [] j = 1 -> clean_json_string(ex.content)
      [] j = 2 -> StripNonPrintable(clean_json_string(ex.content))
      [] OTHER -> _rescue_truncated_json(
                      StripNonPrintable(clean_json_string(ex.content)))

\* C21: at most 4 parses are attempted, the j-th on the bracket span after
\* the first j of the passes (textual repairs, stripping of non-printable
\* characters, truncation rescue); a pass is applied only once the parse of
\* the candidate before it has failed; the first candidate that parses is
\* the result, at once; a span that parses is the result with no pass applied.
C21_EscalationOrder ==
    /\ ex.parses <= 4
    /\ ex.pc = "loop" =>
          /\ ex.i \in 0..4 /\ ex.parses = ex.i
          /\ ex.attempt = Candidate(ex.i)
          /\ \A j \in 0..(ex.i - 1) : ~Loads(Candidate(j)).ok
    /\ ex.result.ok =>
          /\ ex.i \in 0..3 /\ ex.parses = ex.i + 1
          /\ ex.attempt = Candidate(ex.i)
          /\ ex.result.val = Loads(Candidate(ex.i)).val
          /\ \A j \in 0..(ex.i - 1) : ~Loads(Candidate(j)).ok
    /\ (ex.pc \notin {"idle", "loop"} /\ ex.content # <<>> /\ Loads(ex.content).ok) =>
          /\ ex.result.ok /\ ex.i = 0 /\ ex.parses = 1
          /\ ex.attempt = ex.content

\* The span failed three parses and the fourth, after the truncation rescue
\* closed an object, succeeded
C21_Witness ==
    /\ ex.pc = "returned" /\ ex.result.ok
    /\ ex.i = 3 /\ ex.parses = 4
    /\ ex.attempt # ex.content
    /\ ex.attempt = _rescue_truncated_json(ex.content)

\* C22: one call of _extract_json writes failed_response.txt at most once,
\* and only when it returns None: while the call is under way nothing is
\* written, and a call that returned a mapping has written nothing.
C22_DebugFileOnFailureOnly ==
    /\ Len(ex.saved) <= 1
    /\ ex.pc = "loop" => ex.saved = <<>>
    /\ ex.saved # <<>> => ~ex.result.ok /\ ex.pc \in {"returned", "raised"}
    /\ ex.result.ok => ex.saved = <<>>

\* Four parses failed and the call returned None, the file written once
C22_Witness ==
    /\ ex.pc = "returned" /\ ~ex.result.ok
    /\ ex.parses = 4
    /\ ex.saved = <<ex.input.text>>

\* C23: whenever the caller raises the error that points at
\* failed_response.txt, the call of _extract_json before it wrote that file,
\* with the text it was given.
C23_FailureHasDebugFile == ex.pc = "raised" => ex.saved = <<ex.input.text>>

(***************************************************************************)
(* Truncation rescue on its own (SpecRescue)                               *)
(***************************************************************************)
\* A reading of a JSON text that knows its strings: whether the text ends
\* inside a string, whether it ends on the backslash of an escape, and the
\* closers of the containers still open, in the order of opening
RECURSIVE Reading(_, _, _, _, _)
Reading(s, i, in_str, esc, open) ==
    IF i > Len(s) THEN [in_str |-> in_str, esc |-> esc, open |-> open]
    ELSE IF in_str
      THEN IF esc THEN Reading(s, i + 1, TRUE, FALSE, open)
           ELSE IF s[i] = "\\" THEN Reading(s, i + 1, TRUE, TRUE, open)
           ELSE IF s[i] = "\"" THEN Reading(s, i + 1, FALSE, FALSE, open)
           ELSE Reading(s, i + 1, TRUE, FALSE, open)
    ELSE IF s[i] = "\"" THEN Reading(s, i + 1, TRUE, FALSE, open)
    ELSE IF s[i] = "{" THEN Reading(s, i + 1, FALSE, FALSE, Append(open, "}"))
    ELSE IF s[i] = "[" THEN Reading(s, i + 1, FALSE, FALSE, Append(open, "]"))
    ELSE IF s[i] \in {"}", "]"} /\ open # <<>> /\ s[i] = open[Len(open)]
      THEN Reading(s, i + 1, FALSE, FALSE, SubSeq(open, 1, Len(open) - 1))
    ELSE Reading(s, i + 1, FALSE, FALSE, open)

Read(s) == Reading(s, 1, FALSE, FALSE, <<>>)

\* C24: for a prefix of a serialised record, _rescue_truncated_json returns
\* the prefix, a closing quote when the prefix ends inside a string, and the
\* closers of the containers still open, last opened first; in the result
\* no string and no container is left open.
C24_RescueBalances ==
    ex.pc = "rescued" =>
        /\ ex.attempt =
              ex.input.text
                \o (IF Read(ex.input.text).in_str THEN <<"\"">> ELSE <<>>)
                \o Reverse(Read(ex.input.text).open)
        /\ ~Read(ex.attempt).in_str
        /\ Read(ex.attempt).open = <<>>

(***************************************************************************)
(* The failure handler and the summary (SpecPipe)                          *)
(***************************************************************************)
\* C25: once a stage has raised, no further stage is entered; the handler
\* makes one notification attempt and returns False whether the attempt
\* succeeded or failed, touching no file; run_pipeline always returns True
\* or False.
C25_FailureHandler ==
    /\ [][run.pc = AtExcept =>
             /\ run'.pc = AtReturn /\ run'.ret = "False"
             /\ calls' = Append(calls, "send_notification")
             /\ trace'.notified \in {"sent", "failed"}
             /\ trace'.executed = trace.executed
             /\ disk' = disk]_vars
    /\ [](/\ trace.failure.stage # 0 =>
               /\ run.pc \in {AtExcept, AtReturn}
               /\ trace.executed[Len(trace.executed)] = trace.failure.stage
               /\ Occurrences(calls, "send_notification") =
                     (IF run.pc = AtReturn THEN 1 ELSE 0)
          /\ run.pc = AtExcept => trace.failure.stage # 0 /\ trace.notified = "none"
          /\ run.pc = AtReturn =>
               /\ run.ret \in {"True", "False"}
               /\ run.ret = "False" <=> trace.failure.stage # 0
               /\ run.ret = "False" <=> trace.notified # "none")

\* build_video raised in a full run, the notification failed as well, and
\* False was returned with stages 5 to 8 not entered
C25_Witness ==
    /\ run.pc = AtReturn /\ run.ret = "False"
    /\ run.start_step = 1 /\ run.end_step = 8
    /\ trace.failure = [stage |-> 4, cause |-> "collaborator"]
    /\ trace.executed = <<1, 2, 3, 4>>
    /\ trace.notified = "failed"
    /\ calls[Len(calls)] = "send_notification"

\* The stages of the range, in increasing order
RECURSIVE StagesFrom(_, _)
StagesFrom(s, e) ==
    IF s > e \/ s > NumStages THEN <<>> ELSE <<s>> \o StagesFrom(s + 1, e)

\* C26: run_pipeline returns True only when every stage of the range was
\* entered and none raised, and pipeline_results.json then holds the results
\* of this call and nothing else: an entry for each of the stages 1 to 7 of
\* the range and for no other stage; the file is written by the summary step
\* of a call that returns True and by no other step.
C26_CompletedHasSummary ==
    /\ [](run.ret = "True" =>
             /\ run.pc = AtReturn
             /\ trace.failure = NoFailure
             /\ trace.executed = StagesFrom(run.start_step, run.end_step)
             /\ disk.summary = [present |-> TRUE, map |-> results]
             /\ \A k \in 1..7 :
                   InRange(k, run.start_step, run.end_step)
                      <=> \E key \in KeysOfStage(k) : disk.summary.map[key] # "")
    /\ [][disk'.summary # disk.summary =>
             run.pc = AtSummary /\ run'.ret = "True"]_vars
    /\ [](run.ret = "False" => disk.summary \in {EmptyDisk.summary, OldSummary})

\* Stages 3 to 5 completed on a directory without raw articles: the file
\* holds the three entries of this run and no other
C26_Witness ==
    /\ run.pc = AtReturn /\ run.ret = "True"
    /\ run.start_step = 3 /\ run.end_step = 5
    /\ {k \in ResultKeys : disk.summary.map[k] # ""} =
          {"voiceover_status", "video_status", "thumbnail_status"}
    /\ disk.raw_articles = -1

Min(a, b) == IF a < b THEN a ELSE b

\* C28: at every moment of a call the stages entered so far are the stages
\* of the range below the guard the call has reached, each once and in
\* increasing order, up to the stage that raised if one did; a stage is
\* entered at its own guard only, and is over (the next guard or the except
\* clause reached) before anything else happens; a call that returns True
\* has entered every stage of the range.
C28_SequentialStages ==
    /\ [](/\ \A i \in DOMAIN trace.executed :
                /\ trace.executed[i] = run.start_step + i - 1
                /\ trace.executed[i] <= run.end_step
          /\ run.pc \in 1..AtSummary =>
                trace.executed =
                    StagesFrom(run.start_step, Min(run.pc - 1, run.end_step))
          /\ trace.failure.stage # 0 =>
                trace.executed =
                    StagesFrom(run.start_step, trace.failure.stage)
          /\ run.ret = "True" =>
                trace.executed = StagesFrom(run.start_step, run.end_step))
    /\ [][trace'.executed # trace.executed =>
             /\ run.pc \in Stages
             /\ InRange(run.pc, run.start_step, run.end_step)
             /\ trace'.executed = Append(trace.executed, run.pc)
             /\ run'.pc \in {run.pc + 1, AtExcept}]_vars

\* A call for stages 6 to 8 has returned True having entered 6, 7, 8 and
\* none of the stages 1 to 5
C28_Witness ==
    /\ run.pc = AtReturn /\ run.ret = "True"
    /\ run.start_step = 6 /\ run.end_step = 8
    /\ ~run.dry_run
    /\ trace.executed = <<6, 7, 8>>

(***************************************************************************)
(* The publishing stages (SpecPipe)                                        *)
(***************************************************************************)
\* C29: the results say the short was uploaded only if upload_short
\* returned, and that the Telegram post was made only if post_to_telegram
\* returned True.
C29_DegradedStatus ==
    /\ results["short_status"] = "uploaded" =>
          trace.cross # <<>> /\ trace.cross[1]
    /\ results["telegram_status"] = "posted" =>
          trace.cross # <<>> /\ trace.cross[2]

\* C30: in a non-dry run, a call of upload_video that does not return leaves
\* stage 6 for the except clause; from then on stages 7 and 8 are not
\* entered, none of their collaborators is called, pipeline_results.json is
\* not written and the call returns False.
C30_PublishFailureIsFatal ==
    /\ [][/\ calls' = Append(calls, "upload_video")
          /\ results'["upload_status"] # "uploaded"
          => /\ ~run.dry_run
             /\ run'.pc = AtExcept
             /\ trace'.failure = [stage |-> 6, cause |-> "collaborator"]]_vars
    /\ [](trace.failure.stage = 6 =>
             /\ ~run.dry_run
             /\ run.pc \in {AtExcept, AtReturn}
             /\ run.pc = AtReturn => run.ret = "False"
             /\ 7 \notin ExecutedStages /\ 8 \notin ExecutedStages
             /\ \A c \in {"create_short_clip", "upload_short",
                          "post_to_telegram", "send_daily_summary"} :
                   Occurrences(calls, c) = 0
             /\ results["short_status"] = "" /\ results["telegram_status"] = ""
             /\ disk.summary \in {EmptyDisk.summary, OldSummary})

\* A full non-dry run built the video, upload_video raised, and False was
\* returned with the last stage entered being stage 6
C30_Witness ==
    /\ run.pc = AtReturn /\ run.ret = "False"
    /\ ~run.dry_run /\ run.start_step = 1 /\ run.end_step = 8
    /\ trace.failure = [stage |-> 6, cause |-> "collaborator"]
    /\ trace.executed = <<1, 2, 3, 4, 5, 6>>
    /\ calls[Len(calls) - 1] = "upload_video"
    /\ disk.final_video # -1

(***************************************************************************)
(* The notifier of stage 8 (SpecPipe)                                      *)
(***************************************************************************)
\* C31: in a non-dry run stage 8 calls send_notification and
\* send_daily_summary and goes on to the summary whatever the two return;
\* once stage 8 has called them the run has no failure, and it ends with
\* pipeline_results.json written and True returned.
C31_NotifierFailureIsSwallowed ==
    /\ [][StageInRange(8) /\ ~run.dry_run =>
             /\ run'.pc = AtSummary
             /\ trace'.failure = NoFailure
             /\ trace'.ready \in BOOLEAN \X BOOLEAN
             /\ calls' = calls \o <<"send_notification", "send_daily_summary">>]_vars
    /\ [](trace.ready # <<>> =>
             /\ ~run.dry_run
             /\ run.pc \in {AtSummary, AtReturn}
             /\ trace.failure = NoFailure
             /\ run.pc = AtReturn =>
                   /\ run.ret = "True"
                   /\ disk.summary = [present |-> TRUE, map |-> results])

\* A full non-dry run in which both notifier calls returned False ended
\* with True and the summary written
C31_Witness ==
    /\ run.pc = AtReturn /\ run.ret = "True"
    /\ ~run.dry_run /\ run.start_step = 1 /\ run.end_step = 8
    /\ trace.ready = <<FALSE, FALSE>>
    /\ disk.summary = [present |-> TRUE, map |-> results]
    /\ results["upload_status"] = "uploaded"

(***************************************************************************)
(* The run log of the dashboard (Spec)                                     *)
(***************************************************************************)
\* The entries of the log that the run of task t logged, in order
EntriesOf(log, t) == SelectSeq(log, LAMBDA e : e[1] = t)

IsPrefix(a, b) == Len(a) <= Len(b) /\ SubSeq(b, 1, Len(a)) = a

\* C32: across every step taken while the run of task t is between its
\* start and its end, whichever request, trigger or worker takes the step,
\* the entries the run has logged so far stay in the log, in place and in
\* order.
C32_MonotonicLedger ==
    [][\A t \in TaskIds :
          (Executing(t) /\ bg'[t].pc # "none") =>
              IsPrefix(EntriesOf(pipeline_state.log, t),
                       EntriesOf(pipeline_state'.log, t))]_vars

(***************************************************************************)
(* Missing settings (SpecConfig)                                           *)
(***************************************************************************)
\* The Gemini key, the Telegram token are absent: unset or left at the
\* placeholder
NoGeminiKey == cfg.env.GEMINI_API_KEY # "key"

NoBotToken == cfg.env.TELEGRAM_BOT_TOKEN # "token"

\* No cached credentials that are valid or can be refreshed, no
\* client_secrets.json and no client id
NoYouTubeCredentials ==
    /\ cfg.env.token_file \in {"none", "invalid"}
    /\ ~cfg.env.client_secrets
    /\ cfg.env.YOUTUBE_CLIENT_ID # "id"

\* The stage failed the run before any request, naming the setting
FailedNaming(msg) ==
    /\ cfg.call.fatal
    /\ cfg.call.requests = <<>>
    /\ cfg.call.raised = msg

ParsedFeeds == SelectSeq(fn.rss_feeds, LAMBDA f : ~f.raises)

\* What the loop collects from the feeds fs, from feed i on
RECURSIVE Collected(_, _, _, _)
Collected(fs, i, st, n) ==
    IF i > Len(fs) \/ (i > 1 /\ Len(st.all_articles) >= n) THEN st.all_articles
    ELSE Collected(fs, i + 1,
                   AddEntries(fs[i].entries, 1, st.all_articles,
                              st.seen_titles, n), n)

\* C34: fetch_news returns at most max_articles articles, no two of them
\* with the same title compared case-insensitively, and what it returns is
\* what the feeds whose retrieval did not raise give.
C34_FetchNews ==
    fn.call.pc = "done" =>
       LET got == fn.call.returned
       IN  /\ Len(got) <= fn.call.max_articles
           /\ \A i \in DOMAIN got : \A j \in DOMAIN got :
                 i # j => Lower(got[i].title) # Lower(got[j].title)
           /\ LET all == Collected(ParsedFeeds, 1,
                                   [all_articles |-> <<>>, seen_titles |-> {}],
                                   fn.call.max_articles)
              IN  got = SubSeq(all, 1, IF Len(all) < fn.call.max_articles
                                         THEN Len(all) ELSE fn.call.max_articles)

(***************************************************************************)
(* Ranges that hold no stage (SpecPipe)                                    *)
(***************************************************************************)
\* No k of 1..8 has start_step <= k <= end_step
EmptyRange ==
    \A k \in Stages : ~InRange(k, run.start_step, run.end_step)

\* C35: a call whose range holds no stage enters no stage, calls no
\* collaborator and raises nothing; its summary step writes
\* pipeline_results.json as the empty mapping, over whatever the file held,
\* and the call returns True.
C35_EmptyRangeCompletes ==
    /\ [](run.pc # 0 /\ EmptyRange =>
             /\ trace.executed = <<>>
             /\ trace.failure = NoFailure
             /\ calls = <<>>
             /\ results = NoResults
             /\ run.pc # AtExcept
             /\ run.pc = AtReturn =>
                   /\ run.ret = "True"
                   /\ disk.summary = [present |-> TRUE, map |-> NoResults])
    /\ [][run.pc = AtSummary /\ EmptyRange =>
             /\ disk'.summary = [present |-> TRUE, map |-> NoResults]
             /\ run'.ret = "True"]_vars

\* run_pipeline(step_range=(9, 12)) returned True on a directory that holds
\* the video of an earlier run, and the summary is the empty mapping
C35_Witness ==
    /\ run.pc = AtReturn /\ run.ret = "True"
    /\ run.start_step = 9 /\ run.end_step = 12
    /\ disk.final_video # -1
    /\ disk.summary = [present |-> TRUE, map |-> NoResults]

(***************************************************************************)
(* The results of the run snapshot (Spec)                                  *)
(***************************************************************************)
\* C36: when the worker of a pipeline run ends, the results of the snapshot
\* still empty as the start of the run left them and no other worker
\* executing, the results become the summary that this run wrote or stay
\* empty; a summary written by another run is not taken.
C36_ResultsOfThisRun ==
    [][\A t \in TaskIds :
          (/\ bg[t].pc = "load" /\ bg'[t].pc = "done"
           /\ pipeline_state.results = NoRun
           /\ \A u \in TaskIds \ {t} : ~Executing(u)) =>
              pipeline_state'.results \in {NoRun, t}]_vars

(***************************************************************************)
(* The step-progress handler (Spec)                                        *)
(***************************************************************************)
\* C37: the StepHandler a worker attached is detached once the worker has
\* ended, whichever way it ended; and a message logged while no other worker
\* is executing adds one entry to the log.
C37_HandlerDetached ==
    /\ [](\A t \in TaskIds : bg[t].pc = "done" => t \notin handlers)
    /\ [][\A t \in TaskIds :
             (/\ bg[t].pc = "run" /\ bg'[t].in_stage /\ ~bg[t].in_stage
              /\ \A u \in TaskIds \ {t} : ~Executing(u)) =>
                 pipeline_state'.log = Append(pipeline_state.log, <<t, bg'[t].stage>>)]_vars

(***************************************************************************)
(* The narration stage 3 passes on (SpecWriter)                            *)
(***************************************************************************)
\* intro_script, outro_script and every story's script are empty or missing
NoNarration(script_data) ==
    \A i \in DOMAIN ScriptParts(script_data) : ScriptParts(script_data)[i] = <<>>

PublishedInThisCall ==
    /\ \E i \in DOMAIN trace.executed : trace.executed[i] = 6
    /\ 6 \notin trace.skipped
    /\ trace.failure.stage # 6

C39_UrlOfThisRun ==
    \A i \in DOMAIN trace.urls :
        trace.urls[i] = IF PublishedInThisCall THEN "url" ELSE ""

C39_Witness ==
    /\ run.pc = AtSummary
    /\ ~run.dry_run /\ run.start_step = 7 /\ run.end_step = 8
    /\ disk.summary = OldSummary
    /\ trace.urls = <<"", "">>
====
